---- MODULE Spec2Model ----
(***************************************************************************)
(* Verification model of the trademaxxer news pipeline:                    *)
(*   - server/pubsub.py            PubSub (in-memory channel bus)          *)
(*   - server/news_streamer/dbnews_client/client.py  DBNewsWebSocketClient *)
(*   - server/news_streamer/core/types.py            ReconnectionState     *)
(*   - server/main.py              on_news (ingestion -> bus glue)         *)
(*                                                                         *)
(* Callbacks are async functions / closures; their identity (id(cb)) and   *)
(* their equality (list.remove) coincide, so a callback is one value.      *)
(***************************************************************************)
EXTENDS Integers, Sequences, FiniteSets, TLC

\* ------------------------------------------------------------------ bounds
\* most registrations held by the bus at one time (subscriber_count)
MaxRegs == 3
\* longest channel list handed to publish()
MaxChans == 2
\* most consecutive failed connection attempts followed
MaxAttempts == 2
\* most frames counted by messages_received
MaxFrames == 2
\* sockets and receive-loop tasks that exist at one time
MaxSocks == 2
\* most next_delay() calls followed between two reset() calls
MaxCalls == 7
\* longest `coins` list of a feed message
MaxCoins == 2
\* most stories published to the broker
MaxStories == 501
\* most stories published to the broker next to the bus
MaxEvals == 2
\* most classify() calls followed
MaxClassify == 3
\* most tag() calls followed
MaxTagCalls == 3
\* most deserialize() calls followed
MaxDeserialize == 2
\* most toggle_market commands followed
MaxCommands == 4
MaxStreamMsgs == 2

\* ------------------------------------------------- ReconnectionState defaults
\* milliseconds
InitialDelay == 1000
MaxDelay == 60000
Multiplier == 2
\* percent
JitterPct == 10
\* floor of the returned delay, milliseconds
MinDelay == 100
\* default of the field current_delay, milliseconds
CurrentDelayDefault == 1000

\* ----------------------------------------------------------- GroqClient
MAX_RETRIES == 1

\* ------------------------------------------------------ AgentListener
\* `if len(seen) > 500: seen.clear()`
SeenCap == 500

\* ------------------------------------------------------------ value sets
Channels == {"politics", "crypto"}
Callbacks == {"S1", "S2"}
Payloads == {"p1", "p2"}

RECURSIVE SeqsUpTo(_, _)
SeqsUpTo(S, n) ==
    IF n = 0 THEN {<<>>}
    ELSE LET shorter == SeqsUpTo(S, n - 1)
         IN shorter \cup {Append(q, x) : q \in {r \in shorter : Len(r) = n - 1}, x \in S}

ChannelLists == SeqsUpTo(Channels, MaxChans)

VARIABLES
    subs,        \* PubSub._subs : dict channel -> list of callbacks
    tasks,       \* publish(): the local list `tasks`, one record per created task
    pubPc,       \* publish(): "idle" | "gather" | "returned" | "raised"
    pubResult,   \* publish(): the returned count (-1 while none)
    pubChans,    \* publish(): argument `channels` of the current call
    pubPayload,  \* publish(): argument `payload` of the current call
    pubExpected, \* history: callbacks registered on a given channel when publish was called
    removed,     \* history: the last step was an unsubscribe that removed a registration
    regs,        \* history: registrations made and not yet removed, per (channel, callback)
    pubCaller,   \* publish(): 0 when called directly, else the receive loop awaiting it
    should_reconnect,  \* DBNewsWebSocketClient._should_reconnect
    connected,         \* DBNewsWebSocketClient._connected
    ws,                \* DBNewsWebSocketClient._ws : 0 (None) or a socket
    receive_task,      \* DBNewsWebSocketClient._receive_task : 0 (None) or a receive loop
    attempt_count,     \* ReconnectionState.attempt_count
    current_delay,     \* ReconnectionState.current_delay (milliseconds)
    reset_from,  \* history: attempt_count found by the last reset() (-1 before any)
    messages_received, \* DBNewsWebSocketClient._messages_received
    message_count,     \* on_news: `message_count`, the calls of the message callback
    wired,       \* the on_message / on_error / on_reconnect callbacks are registered
    socks,       \* the sockets opened by websockets.connect: "free" | "open" | "closed"
    loops,       \* the _receive_loop tasks: position, the socket iterated, cancel request,
                 \* and the local `message` (the kind of the last frame taken)
    cyc,         \* the _connect_with_retry cycles: of connect() and of the reconnect task
    cycDelay,    \* _connect_with_retry: the local `delay` of each cycle
    disc,        \* disconnect(): position, the task awaited, the socket being closed
    initial_delay_seconds, \* ReconnectionState.initial_delay_seconds (milliseconds)
    delay_calls,    \* history: next_delay() calls since construction or the last reset()
    returned_delay, \* the value the last next_delay() call returned (0 before any)
    item,        \* channels_for_item(): the argument `item` of the last call
    result,      \* channels_for_item(): the list returned by the last call
    published,   \* NewsPublisher: stories published so far; story n has id n
    queue,       \* the broker's messages for the listener's FeedSubscriber, oldest first
    listener_seen, \* AgentListener.run: the local set `seen`
    lpc,         \* AgentListener.run: "pull" | "eval" (inside _on_story) | "crashed"
    pulls,       \* history: pull() returns that carried the latest story
    evals,       \* history: _on_story calls for the latest story
    last_outcome, \* history: how the last finished _on_story call of the listener ended
    decisions,   \* main.py _on_story: the broadcast_decision tasks created so far
    last_scoring, \* history: how the last scoring call of each market callback ended
    recovered,   \* history: the markets that emitted a decision right after a scoring error
    groq_pc,     \* GroqClient.classify: "idle" | "request" | "returned" | the exception raised
    attempt,     \* GroqClient.classify: the loop variable `attempt`
    last_error,  \* GroqClient.classify: the local `last_error` ("none" for None)
    responses,   \* history: what the backend answered to the requests of the current call
    classify_calls, \* history: the classify() calls made so far
    items_tagged,  \* NewsTagger._stats.items_tagged
    items_failed,  \* NewsTagger._stats.items_failed
    tag_calls,     \* history: the tag() calls made so far
    news,          \* tag(): the argument `news` of the last call
    tagged,        \* tag(): what the last call returned or raised
    news_cb,       \* the message callback of the process (on_news of server/main.py or
                   \* handle_message of news_streamer/main.py): how its last call ended,
                   \* what went wrong in that call and in the call before
    raw,           \* deserialize(): the argument `raw` of the last call
    deserialized,  \* deserialize(): what the last call returned or raised
    deserialize_calls, \* history: the deserialize() calls made so far
    enabled_markets,  \* run(): the set `enabled_markets`
    market_callbacks, \* run(): the dict `market_callbacks`, address -> callback
    command,          \* _handle_command: the argument `data` of the last call
    commands,         \* history: the _handle_command calls made so far
    stream_subscribers, \* InMemoryStream._subscribers : tag -> list of subscriber queues
    stream_messages,    \* InMemoryStream._messages : tag -> list of entries
    stream_queues,      \* subscribe(): the local queue `q` of each subscribe() call
    consumers,          \* subscribe(): where each call is, its `tags`, the entry it
                        \* took from its queue, and how its callback calls ended
    stream_ids          \* history: the message ids handed out by publish_to_tags

busVars == <<subs, tasks, pubPc, pubResult, pubChans, pubPayload, pubExpected, removed, regs>>

backoffVars == <<initial_delay_seconds, delay_calls, returned_delay>>

routerVars == <<item, result>>

\* the variables of the units that are also specified on their own
feedVars == <<published, queue, listener_seen, lpc, pulls, evals, last_outcome>>

marketVars == <<decisions, last_scoring, recovered>>

groqVars == <<groq_pc, attempt, last_error, responses, classify_calls>>

\* the tagger is followed in SpecTagger and SpecCallbacks; the client and
\* market specifications take the categories it gives as part of their input
taggerVars == <<items_tagged, items_failed, tag_calls, news, tagged>>

\* the units added to the five above
serializerVars == <<raw, deserialized, deserialize_calls>>

toggleVars == <<enabled_markets, market_callbacks, command, commands>>

streamVars == <<stream_subscribers, stream_messages, stream_queues, consumers, stream_ids>>

moreVars == <<taggerVars, news_cb, serializerVars, toggleVars, streamVars>>

unitVars == <<backoffVars, routerVars, feedVars, marketVars, groqVars, moreVars>>

clientVars == <<pubCaller, should_reconnect, connected, ws, receive_task, attempt_count,
                current_delay, reset_from, messages_received, message_count, wired, unitVars, socks, loops, cyc, cycDelay, disc>>

vars == <<subs, tasks, pubPc, pubResult, pubChans, pubPayload, pubExpected, removed, regs,
          pubCaller, should_reconnect, connected, ws, receive_task, attempt_count,
          current_delay, reset_from, messages_received, message_count, wired, unitVars, socks, loops, cyc, cycDelay, disc>>

\* ------------------------------------------------------------- helpers
Range(q) == {q[i] : i \in 1..Len(q)}

\* number of occurrences of x in q
Count(q, x) == Cardinality({i \in 1..Len(q) : q[i] = x})

\* index of the first occurrence of x in q (0 when absent)
FirstIndex(q, x) ==
    IF x \in Range(q) THEN CHOOSE i \in 1..Len(q) : q[i] = x /\ \A j \in 1..(i - 1) : q[j] # x
    ELSE 0

\* variant: removes the last occurrence instead of the first
RemoveLast(q, x) ==
    LET k == CHOOSE i \in 0..Len(q) :
                 /\ (i > 0 => q[i] = x)
                 /\ \A j \in (i + 1)..Len(q) : q[j] # x
    IN [i \in 1..(Len(q) - 1) |-> IF i < k THEN q[i] ELSE q[i + 1]]

\* list.remove(x): the list without its first occurrence of x
RemoveFirst(q, x) ==
    LET k == FirstIndex(q, x)
    IN [i \in 1..(Len(q) - 1) |-> IF i < k THEN q[i] ELSE q[i + 1]]

\* dict without key k
DictDel(d, k) == [c \in (DOMAIN d) \ {k} |-> d[c]]

\* dict with d[k] = v
DictSet(d, k, v) == [c \in (DOMAIN d) \cup {k} |-> IF c = k THEN v ELSE d[c]]

\* defaultdict(list).__getitem__: a missing key is inserted with an empty list
DefaultGet(d, k) == IF k \in DOMAIN d THEN d ELSE DictSet(d, k, <<>>)

\* dict.get(ch, ()): no insertion
SubsGet(d, ch) == IF ch \in DOMAIN d THEN d[ch] ELSE <<>>

\* channel_count: len(self._subs)
channel_count == Cardinality(DOMAIN subs)

RECURSIVE SumLens(_, _)
SumLens(d, S) ==
    IF S = {} THEN 0
    ELSE LET c == CHOOSE x \in S : TRUE IN Len(d[c]) + SumLens(d, S \ {c})

\* subscriber_count: sum(len(cbs) for cbs in self._subs.values())
subscriber_count == SumLens(subs, DOMAIN subs)

\* ---------------------------------------------------------------- PubSub
\* variant: a subscriber added while a publish on its channel is in flight
\* also receives the in-flight payload
SubscribeLive(ch, cb) ==
    /\ subscriber_count < MaxRegs
    /\ subs' = DictSet(subs, ch, Append(SubsGet(subs, ch), cb))
    /\ removed' = FALSE
    /\ regs' = [regs EXCEPT ![<<ch, cb>>] = @ + 1]
    /\ tasks' = IF pubPc = "gather" /\ ch \in Range(pubChans)
                   /\ \A i \in 1..Len(tasks) : tasks[i].cb # cb
                THEN Append(tasks, [cb |-> cb, arg |-> pubPayload, st |-> "scheduled"])
                ELSE tasks
    /\ UNCHANGED <<pubPc, pubResult, pubChans, pubPayload, pubExpected>>

\* subscribe(channel, cb): self._subs[channel].append(cb)
Subscribe(ch, cb) ==
    /\ subscriber_count < MaxRegs
    /\ subs' = DictSet(subs, ch, Append(SubsGet(subs, ch), cb))
    /\ removed' = FALSE
    /\ regs' = [regs EXCEPT ![<<ch, cb>>] = @ + 1]
    /\ UNCHANGED <<tasks, pubPc, pubResult, pubChans, pubPayload, pubExpected>>

\* the dict after unsubscribe(channel, cb)
UnsubscribeResult(d, ch, cb) ==
    LET d1 == DefaultGet(d, ch)          \* self._subs[channel]
    IN IF cb \in Range(d1[ch])
       THEN LET rest == RemoveFirst(d1[ch], cb)      \* .remove(cb)
            IN IF rest = <<>> THEN DictDel(d1, ch)   \* del self._subs[channel]
               ELSE DictSet(d1, ch, rest)
       ELSE d1                                       \* ValueError: pass

Unsubscribe(ch, cb) ==
    /\ subs' = UnsubscribeResult(subs, ch, cb)
    /\ removed' = (cb \in Range(SubsGet(subs, ch)))
    /\ regs' = [regs EXCEPT ![<<ch, cb>>] = IF @ > 0 THEN @ - 1 ELSE 0]
    /\ UNCHANGED <<tasks, pubPc, pubResult, pubChans, pubPayload, pubExpected>>

\* variant: the `seen` check never skips
SeenNever(cb, seen) == FALSE

\* `if cb_id in seen: continue`
Seen(cb, seen) == cb \in seen

\* inner loop of publish over one channel's list
RECURSIVE ScanList(_, _, _)
ScanList(lst, seen, acc) ==
    IF lst = <<>> THEN [seen |-> seen, acc |-> acc]
    ELSE IF Seen(Head(lst), seen)
         THEN ScanList(Tail(lst), seen, acc)
         ELSE ScanList(Tail(lst), seen \cup {Head(lst)}, Append(acc, Head(lst)))

\* outer loop of publish over the channel list
RECURSIVE ScanChannels(_, _, _, _)
ScanChannels(d, chs, seen, acc) ==
    IF chs = <<>> THEN acc
    ELSE LET r == ScanList(SubsGet(d, Head(chs)), seen, acc)
         IN ScanChannels(d, Tail(chs), r.seen, r.acc)

\* variant: only the first given channel is scanned
PublishTasksFirstOnly(d, chs) ==
    ScanChannels(d, IF chs = <<>> THEN <<>> ELSE <<Head(chs)>>, {}, <<>>)

\* callbacks for which publish creates a task, in creation order
PublishTasks(d, chs) == ScanChannels(d, chs, {}, <<>>)

\* the callbacks registered on at least one of the channels chs
Recipients(d, chs) == UNION {Range(SubsGet(d, chs[i])) : i \in 1..Len(chs)}

Finished(t) == t.st \in {"done", "failed"}

\* variant: gather without return_exceptions
ReturnExceptionsOff == FALSE

\* asyncio.gather(*tasks, return_exceptions=...)
ReturnExceptions == TRUE

GatherReady(ts) ==
    IF ReturnExceptions THEN \A i \in 1..Len(ts) : Finished(ts[i])
    ELSE \/ \E i \in 1..Len(ts) : ts[i].st = "failed"
         \/ \A i \in 1..Len(ts) : Finished(ts[i])

GatherRaises(ts) == ~ReturnExceptions /\ \E i \in 1..Len(ts) : ts[i].st = "failed"

\* publish(channels, payload) up to the await: every task is created, none has run
Publish(chs, p) ==
    /\ pubPc # "gather"
    /\ LET cbs == PublishTasks(subs, chs)
       IN /\ tasks' = [i \in 1..Len(cbs) |-> [cb |-> cbs[i], arg |-> p, st |-> "scheduled"]]
          /\ pubPc' = IF cbs = <<>> THEN "returned" ELSE "gather"
          /\ pubResult' = IF cbs = <<>> THEN 0 ELSE -1
    /\ pubChans' = chs
    /\ pubPayload' = p
    /\ pubExpected' = Recipients(subs, chs)
    /\ removed' = FALSE
    /\ UNCHANGED <<subs, regs>>

\* variant: callbacks awaited one after the other
CanStartSerial(ts, i) ==
    /\ ts[i].st = "scheduled"
    /\ \A j \in 1..(i - 1) : Finished(ts[j])

\* a created task may start as soon as the event loop runs it
CanStart(ts, i) == ts[i].st = "scheduled"

\* the event loop starts cb(payload)
StartTask(i) ==
    /\ i \in 1..Len(tasks)
    /\ CanStart(tasks, i)
    /\ tasks' = [tasks EXCEPT ![i].st = "running"]
    /\ removed' = FALSE
    /\ UNCHANGED <<subs, pubPc, pubResult, pubChans, pubPayload, pubExpected, regs>>

\* cb(payload) returns ("done") or raises ("failed"); a callback that never
\* finishes simply never takes this step
FinishTask(i, outcome) ==
    /\ i \in 1..Len(tasks)
    /\ tasks[i].st = "running"
    /\ tasks' = [tasks EXCEPT ![i].st = outcome]
    /\ removed' = FALSE
    /\ UNCHANGED <<subs, pubPc, pubResult, pubChans, pubPayload, pubExpected, regs>>

\* `await asyncio.gather(...)` completes; `return len(tasks)`
PublishReturn ==
    /\ pubPc = "gather"
    /\ GatherReady(tasks)
    /\ pubPc' = IF GatherRaises(tasks) THEN "raised" ELSE "returned"
    /\ pubResult' = IF GatherRaises(tasks) THEN -1 ELSE Len(tasks)
    /\ removed' = FALSE
    /\ UNCHANGED <<subs, tasks, pubChans, pubPayload, pubExpected, regs>>

\* ------------------------------------------------------------ bus claims
TaskCbs(ts) == [i \in 1..Len(ts) |-> ts[i].cb]

\* C1: within one publish call no callback gets more than one task, whatever
\* the registrations (a callback on several given channels, several times on
\* one channel) and whatever the channel list (repeated channels).
C1_NoCallbackTwice ==
    \A c \in Callbacks : Cardinality({i \in 1..Len(tasks) : tasks[i].cb = c}) <= 1

\* a publish over <<politics, crypto>> has returned; S1, registered twice on `politics`
\* and once on `crypto`, ran
C1_Witness ==
    /\ pubPc = "returned"
    /\ pubChans = <<"politics", "crypto">>
    /\ Count(SubsGet(subs, "politics"), "S1") = 2
    /\ Count(SubsGet(subs, "crypto"), "S1") = 1
    /\ pubExpected = {"S1"}
    /\ \E i \in 1..Len(tasks) : tasks[i].cb = "S1" /\ tasks[i].st = "done"

\* C2: when publish returns, the callbacks it ran are exactly those that were
\* registered on at least one given channel at the call, each got the
\* published payload, and the returned count is the size of that union.
C2_PublishUnion ==
    pubPc = "returned" =>
        /\ Range(TaskCbs(tasks)) = pubExpected
        /\ \A i \in 1..Len(tasks) : Finished(tasks[i]) /\ tasks[i].arg = pubPayload
        /\ pubResult = Cardinality(pubExpected)

\* S1 on both channels, S2 on `crypto` only, publish(<<politics, crypto>>, p2) returned 2
C2_Witness ==
    /\ pubPc = "returned"
    /\ pubChans = <<"politics", "crypto">>
    /\ pubPayload = "p2"
    /\ SubsGet(subs, "politics") = <<"S1">>
    /\ SubsGet(subs, "crypto") = <<"S1", "S2">>
    /\ pubExpected = {"S1", "S2"}
    /\ pubResult = 2

\* C3: a raising callback does not make publish raise, does not keep the
\* other callbacks from completing, and is included in the returned count.
C3_FailureContained ==
    /\ pubPc # "raised"
    /\ (pubPc = "returned" /\ \E i \in 1..Len(tasks) : tasks[i].st = "failed") =>
           /\ \A j \in 1..Len(tasks) : Finished(tasks[j])
           /\ pubResult = Len(tasks)

\* publish returned 2 although one of its two callbacks raised
C3_Witness ==
    /\ pubPc = "returned"
    /\ pubResult = 2
    /\ \E i, j \in 1..Len(tasks) : tasks[i].st = "failed" /\ tasks[j].st = "done"

\* C4: while publish waits, every selected callback already has its task, each
\* task can start and finish whatever the state of the others, and publish
\* returns only when all of them have finished or failed.
C4_NotSerialized ==
    /\ pubPc = "gather" =>
           /\ pubExpected \subseteq Range(TaskCbs(tasks))
           /\ \A i \in 1..Len(tasks) :
                  /\ tasks[i].st = "scheduled" => ENABLED StartTask(i)
                  /\ tasks[i].st = "running" => ENABLED FinishTask(i, "done")
    /\ pubPc = "returned" => \A i \in 1..Len(tasks) : Finished(tasks[i])

\* the first callback is still running while the second one has completed
C4_Witness ==
    /\ pubPc = "gather"
    /\ Len(tasks) = 2
    /\ tasks[1].st = "running"
    /\ tasks[2].st = "done"

\* C5: the recipients of a publish are those registered when it was called:
\* a step taken while the publish is in flight leaves its task list unchanged,
\* a publish step selects exactly the callbacks registered at that instant,
\* and the mapping stays a well-formed channel -> callback-list mapping.
SubsWellFormed(d) ==
    /\ DOMAIN d \subseteq Channels
    /\ \A ch \in DOMAIN d : d[ch] \in Seq(Callbacks)

C5_SnapshotAtCall ==
    [][ /\ pubPc = "gather" => TaskCbs(tasks') = TaskCbs(tasks)
        /\ Publish(pubChans', pubPayload') =>
               Range(TaskCbs(tasks')) = Recipients(subs, pubChans')
        /\ SubsWellFormed(subs') ]_vars

\* a callback of the publish is running and a subscribe/unsubscribe made since
\* the call has changed who is registered on the published channels
C5_Witness ==
    /\ pubPc = "gather"
    /\ Recipients(subs, pubChans) # pubExpected
    /\ \E i \in 1..Len(tasks) : tasks[i].st = "running"

\* C6: unsubscribe(channel, cb) with cb not registered on channel leaves the
\* bus unchanged.
C6_UnsubscribeAbsentNoOp ==
    [][ \A ch \in Channels, cb \in Callbacks :
            (cb \notin Range(SubsGet(subs, ch)) /\ Unsubscribe(ch, cb)) =>
                subs' = subs ]_vars

\* C7: unsubscribe(channel, cb) with cb registered removes the first
\* occurrence of cb from that channel's list only, and drops the channel entry
\* exactly when the list became empty.
C7_UnsubscribeRemovesFirst ==
    [][ \A ch \in Channels, cb \in Callbacks :
            (cb \in Range(SubsGet(subs, ch)) /\ Unsubscribe(ch, cb)) =>
                LET old == subs[ch]
                    k == FirstIndex(old, cb)
                    new == SubSeq(old, 1, k - 1) \o SubSeq(old, k + 1, Len(old))
                IN /\ SubsGet(subs', ch) = new
                   /\ (ch \in DOMAIN subs') <=> (new # <<>>)
                   /\ \A c2 \in Channels \ {ch} :
                          /\ (c2 \in DOMAIN subs') <=> (c2 \in DOMAIN subs)
                          /\ SubsGet(subs', c2) = SubsGet(subs, c2) ]_vars

\* an unsubscribe has just removed a registration, `politics` keeps its entry with
\* <<S2, S1>> and `crypto` has no entry
C7_Witness ==
    /\ removed
    /\ SubsGet(subs, "politics") = <<"S2", "S1">>
    /\ "crypto" \notin DOMAIN subs
    /\ subscriber_count = 2

RECURSIVE SumRegs(_, _)
SumRegs(r, S) ==
    IF S = {} THEN 0
    ELSE LET x == CHOOSE y \in S : TRUE IN r[x] + SumRegs(r, S \ {x})

\* C8: subscriber_count is the number of registrations made and not removed,
\* channel_count the number of channels with at least one subscriber, and no
\* channel entry holds an empty list.
C8_Counts ==
    /\ subscriber_count = SumRegs(regs, Channels \X Callbacks)
    /\ channel_count = Cardinality({ch \in Channels : \E cb \in Callbacks : regs[<<ch, cb>>] > 0})
    /\ \A ch \in DOMAIN subs : subs[ch] # <<>>

\* ------------------------------------------------------- ReconnectionState
Min(a, b) == IF a < b THEN a ELSE b

Max(a, b) == IF a > b THEN a ELSE b

\* delay + random.uniform(-jitter, jitter), sampled at both ends and the middle
JitteredDelays(d) ==
    LET jitter == (d * JitterPct) \div 100
    IN {d - jitter, d, d + jitter}

\* next_delay(): the values it can return from current_delay d
NextDelayReturns(d) == {Max(MinDelay, x) : x \in JitteredDelays(d)}

\* next_delay(): the new current_delay
NextCurrentDelay(d) == Min(d * Multiplier, MaxDelay)

\* values of the constructor argument initial_delay_seconds (milliseconds):
\* the default, a shorter and a longer one
InitialDelays == {100, InitialDelay, 5000}

\* the generated __init__ of the dataclass with initial_delay_seconds = d:
\* current_delay and attempt_count are init=False fields and get their defaults
InitReconnectionState(d) ==
    /\ initial_delay_seconds = d
    /\ current_delay = CurrentDelayDefault
    /\ attempt_count = 0
    /\ delay_calls = 0
    /\ returned_delay = 0

\* --------------------------------------------------- DBNewsWebSocketClient
SockIds == 1..MaxSocks

LoopIds == 1..MaxSocks

\* "connect": the cycle run by connect(); "auto": the task created when a
\* receive loop exits
CycleIds == {"connect", "auto"}

NoLoop == [pc |-> "none", sock |-> 0, cancel |-> FALSE, msg |-> "none"]

ExitedLoop == [pc |-> "exited", sock |-> 0, cancel |-> FALSE, msg |-> "none"]

NoDisc == [pc |-> "idle", task |-> 0, sock |-> 0]

\* disconnect() has returned
DiscDone == [pc |-> "done", task |-> 0, sock |-> 0]

\* the property `connected`
Connected == connected /\ ws # 0

\* asyncio.Task.done() of a receive loop
LoopDone(l) == loops[l].pc \in {"none", "returned", "exited", "cancelled"}

CycleRunning(k) == cyc[k] \notin {"idle", "returned", "raised"}

\* a socket slot that is unused, or closed and referred to by nothing
SockFree(s) ==
    \/ socks[s] = "free"
    \/ /\ socks[s] = "closed"
       /\ ws # s
       /\ disc.sock # s
       /\ \A l \in LoopIds : loops[l].sock # s

NewSock == CHOOSE s \in SockIds : SockFree(s) /\ \A t \in 1..(s - 1) : ~SockFree(t)

\* a task slot whose task is done and awaited by nobody
LoopFree(l) == LoopDone(l) /\ disc.task # l

NewLoop == CHOOSE l \in LoopIds : LoopFree(l) /\ \A t \in 1..(l - 1) : ~LoopFree(t)

\* tuple(c.value for c in tagged.categories): the categories of a set, in any order
TagLists == {t \in ChannelLists : \A i, j \in 1..Len(t) : i # j => t[i] # t[j]}

\* frames of the feed: text or bytes that json.loads rejects ("badjson"), bytes
\* that are not UTF-8 ("badutf8"), a JSON mapping that fails
\* validate_dbnews_message ("badnorm"), JSON that is not a mapping ("nonmap"),
\* an item on which the message callback raises ("poison"), or an item with its
\* id and the categories the tagger gives it (none when tagging fails)
Frames ==
    {[kind |-> k, tags |-> <<>>, id |-> "p1"] : k \in {"badjson", "badutf8", "badnorm", "nonmap", "poison"}}
    \cup {[kind |-> "item", tags |-> t, id |-> p] : t \in TagLists, p \in Payloads}

\* `except json.JSONDecodeError` ... `return`
JsonErrorCaught == TRUE

\* variant: an exception of the message callback leaves _handle_message
CallbackErrorCaughtOff == FALSE

\* `try: await self._on_message(news_item)` / `except Exception`
CallbackErrorCaught == TRUE

\* _handle_message on frame f, hasCb telling whether a message callback is
\* registered: the frame is "dropped", the callback is "called" and returns,
\* its exception is "contained", or an exception leaves _handle_message
\* ("error").  For bytes that are not UTF-8 `message.decode("utf-8")` raises
\* UnicodeDecodeError, which is no JSONDecodeError.  For JSON that is not a
\* mapping normalize_news raises ValidationError and the handler's
\* `data.get("_id", "unknown")` raises AttributeError.  No clause of
\* _handle_message catches either.
HandleMessage(f, hasCb) ==
    IF f.kind = "badjson" THEN (IF JsonErrorCaught THEN "dropped" ELSE "error")
    ELSE IF f.kind = "badutf8" THEN "error"
    ELSE IF f.kind = "badnorm" THEN "dropped"
    ELSE IF f.kind = "nonmap" THEN "error"
    ELSE IF ~hasCb THEN "dropped"
    ELSE IF f.kind = "poison" THEN (IF CallbackErrorCaught THEN "contained" ELSE "error")
    ELSE "called"

\* on_news has returned: the publish call it awaited and its locals are gone;
\* r is what the call gave on_news (its count, or -1 for an exception)
PublishDropped(r) ==
    /\ tasks' = <<>>
    /\ pubPc' = "idle"
    /\ pubResult' = r
    /\ pubChans' = <<>>
    /\ pubPayload' = "p1"
    /\ pubExpected' = {}
    /\ removed' = FALSE
    /\ UNCHANGED <<subs, regs>>

\* main() calls connect() once: set the flag and enter _connect_with_retry up
\* to the first await
Connect ==
    /\ cyc["connect"] = "idle"
    /\ should_reconnect' = TRUE
    /\ cyc' = [cyc EXCEPT !["connect"] = "connecting"]
    /\ UNCHANGED <<busVars, pubCaller, connected, ws, receive_task, attempt_count,
                   current_delay, reset_from, messages_received, message_count, wired, unitVars, socks, loops, cycDelay, disc>>

\* the reconnect task starts running: `while self._should_reconnect`
CycleStart(k) ==
    /\ cyc[k] = "start"
    /\ cyc' = [cyc EXCEPT ![k] = IF should_reconnect THEN "connecting" ELSE "returned"]
    /\ UNCHANGED <<busVars, pubCaller, should_reconnect, connected, ws, receive_task,
                   attempt_count, current_delay, reset_from, messages_received, message_count, wired, unitVars, socks, loops,
                   cycDelay, disc>>

\* variant: reset() zeroes the counter and keeps the delay
ResetKeepsDelay == [attempt_count |-> 0, current_delay |-> current_delay]

\* ReconnectionState.reset()
ResetState == [attempt_count |-> 0, current_delay |-> initial_delay_seconds]

\* end of _establish_connection (create_task of the receive loop), then
\* reset() and return in _connect_with_retry
StartReceiveLoop(k) ==
    /\ \E l \in LoopIds : LoopFree(l)
    /\ loops' = [loops EXCEPT ![NewLoop] = [pc |-> "created", sock |-> 0, cancel |-> FALSE, msg |-> "none"]]
    /\ receive_task' = NewLoop
    /\ attempt_count' = ResetState.attempt_count
    /\ current_delay' = ResetState.current_delay
    /\ reset_from' = attempt_count
    /\ cyc' = [cyc EXCEPT ![k] = "returned"]

\* websockets.connect succeeds
ConnectOk(k) ==
    /\ cyc[k] = "connecting"
    /\ \E s \in SockIds : SockFree(s)
    /\ socks' = [socks EXCEPT ![NewSock] = "open"]
    /\ ws' = NewSock
    /\ connected' = TRUE
    /\ IF attempt_count > 0 /\ wired
       THEN /\ cyc' = [cyc EXCEPT ![k] = "reconnect_cb"]
            /\ UNCHANGED <<loops, receive_task, attempt_count, current_delay, reset_from>>
       ELSE StartReceiveLoop(k)
    /\ UNCHANGED <<busVars, pubCaller, should_reconnect, messages_received, message_count, wired, unitVars,
                   cycDelay, disc>>

\* an awaited callback returns or raises
CallbackOutcomes == {"returned", "raised"}

\* variant: the retry loop gives up after a failed retry
AfterFailureGiveUp(hasErrorCb) ==
    IF attempt_count >= 1 THEN "raised"
    ELSE IF hasErrorCb THEN "error_cb" ELSE "sleeping"

\* where _connect_with_retry goes after a retryable failure: `if self._on_error`
AfterFailure(hasErrorCb) == IF hasErrorCb THEN "error_cb" ELSE "sleeping"

\* variant: an authentication error is handled like any other failure
RetryableAll(err) == TRUE

\* `except AuthenticationError: raise` comes before `except Exception`
Retryable(err) == err # "auth"

\* _connect_with_retry on an exception err of _establish_connection in cycle k
AttemptFailed(k, err) ==
    IF ~Retryable(err)
    THEN /\ cyc' = [cyc EXCEPT ![k] = "raised"]
         /\ UNCHANGED <<attempt_count, current_delay, reset_from, cycDelay>>
    ELSE IF ~should_reconnect
    THEN /\ cyc' = [cyc EXCEPT ![k] = "returned"]
         /\ UNCHANGED <<attempt_count, current_delay, reset_from, cycDelay>>
    ELSE /\ attempt_count < MaxAttempts
         /\ \E d \in NextDelayReturns(current_delay) :
                cycDelay' = [cycDelay EXCEPT ![k] = d]
         /\ current_delay' = NextCurrentDelay(current_delay)
         /\ attempt_count' = attempt_count + 1
         /\ cyc' = [cyc EXCEPT ![k] = AfterFailure(wired)]
         /\ UNCHANGED reset_from

\* variant: an exception of the reconnect callback leaves its try block
ReconnectCbCaughtOff == FALSE

\* `try: await self._on_reconnect()` / `except Exception`
ReconnectCbCaught == TRUE

\* `await self._on_reconnect()` returns or raises (the exception is logged)
ReconnectCbDone(k) ==
    /\ cyc[k] = "reconnect_cb"
    /\ \E o \in CallbackOutcomes :
           IF o = "raised" /\ ~ReconnectCbCaught
           THEN /\ AttemptFailed(k, "refused")
                /\ UNCHANGED <<loops, receive_task>>
           ELSE /\ StartReceiveLoop(k)
                /\ UNCHANGED cycDelay
    /\ UNCHANGED <<busVars, pubCaller, should_reconnect, connected, ws, messages_received,
                   message_count, wired, unitVars, socks, disc>>

\* websockets.connect fails with anything but a 401: ConnectionError
ConnectFail(k) ==
    /\ cyc[k] = "connecting"
    /\ AttemptFailed(k, "refused")
    /\ UNCHANGED <<busVars, pubCaller, should_reconnect, connected, ws, receive_task,
                   messages_received, message_count, wired, unitVars, socks, loops, disc>>

\* websockets.connect fails with InvalidStatusCode 401: AuthenticationError
ConnectAuth(k) ==
    /\ cyc[k] = "connecting"
    /\ AttemptFailed(k, "auth")
    /\ UNCHANGED <<busVars, pubCaller, should_reconnect, connected, ws, receive_task,
                   messages_received, message_count, wired, unitVars, socks, loops, disc>>

\* variant: an exception of the error callback leaves _connect_with_retry
ErrorCbCaughtOff == FALSE

\* `try: await self._on_error(e)` / `except Exception`
ErrorCbCaught == TRUE

\* `await self._on_error(e)` returns or raises (the exception is logged)
ErrorCbDone(k) ==
    /\ cyc[k] = "error_cb"
    /\ \E o \in CallbackOutcomes :
           cyc' = [cyc EXCEPT ![k] = IF o = "raised" /\ ~ErrorCbCaught
                                     THEN "raised" ELSE "sleeping"]
    /\ UNCHANGED <<busVars, pubCaller, should_reconnect, connected, ws, receive_task,
                   attempt_count, current_delay, reset_from, messages_received, message_count, wired, unitVars,
                   socks, loops, cycDelay, disc>>

\* `await asyncio.sleep(delay)` returns; `while self._should_reconnect`
SleepDone(k) ==
    /\ cyc[k] = "sleeping"
    /\ cyc' = [cyc EXCEPT ![k] = IF should_reconnect THEN "connecting" ELSE "returned"]
    /\ cycDelay' = [cycDelay EXCEPT ![k] = 0]
    /\ UNCHANGED <<busVars, pubCaller, should_reconnect, connected, ws, receive_task,
                   attempt_count, current_delay, reset_from, messages_received, message_count, wired, unitVars, socks, loops,
                   disc>>

\* variant: the end of a receive loop schedules nothing
ScheduleReconnectNever == FALSE

\* `if self._should_reconnect:` in the `finally` of _receive_loop
ScheduleReconnect == should_reconnect

\* the `finally` of _receive_loop
LoopFinally(l) ==
    /\ connected' = FALSE
    /\ loops' = [loops EXCEPT ![l] = ExitedLoop]
    /\ IF ScheduleReconnect
       THEN /\ ~CycleRunning("auto")
            /\ cyc' = [cyc EXCEPT !["auto"] = "start"]
       ELSE UNCHANGED cyc

\* the receive loop task starts: `if self._ws is None: return`, else it
\* iterates the socket self._ws refers to now
RecvStart(l) ==
    /\ loops[l].pc = "created"
    /\ ~loops[l].cancel
    /\ loops' = [loops EXCEPT ![l] = IF ws = 0 THEN [pc |-> "returned", sock |-> 0, cancel |-> FALSE, msg |-> "none"]
                                     ELSE [pc |-> "waiting", sock |-> ws, cancel |-> FALSE, msg |-> "none"]]
    /\ UNCHANGED <<busVars, pubCaller, should_reconnect, connected, ws, receive_task,
                   attempt_count, current_delay, reset_from, messages_received, message_count, wired, unitVars, socks, cyc,
                   cycDelay, disc>>

\* variant: on_news starts the publish as a task and returns
OnNewsAwaitsPublishOff == FALSE

\* `await bus.publish(tags, story)` as the last statement of on_news, awaited
\* in turn by _handle_message and by the loop's `await self._handle_message(message)`
OnNewsAwaitsPublish == TRUE

\* one frame arrives: the stop-flag check, then _handle_message and, for an
\* item, on_news up to `await bus.publish(tags, story)`; an exception that
\* leaves _handle_message ends the loop through `except Exception` and `finally`
RecvFrame(l, f) ==
    /\ loops[l].pc = "waiting"
    /\ ~loops[l].cancel
    /\ socks[loops[l].sock] = "open"
    /\ IF ~should_reconnect
       THEN /\ LoopFinally(l)
            /\ UNCHANGED <<busVars, pubCaller, messages_received, message_count>>
       ELSE /\ messages_received < MaxFrames
            /\ messages_received' = messages_received + 1
            /\ LET r == HandleMessage(f, wired)
               IN /\ message_count' = IF r \in {"called", "contained"}
                                       THEN message_count + 1 ELSE message_count
                  /\ IF r = "error"
                     THEN /\ LoopFinally(l)
                          /\ UNCHANGED <<busVars, pubCaller>>
                     ELSE /\ UNCHANGED <<connected, cyc>>
                          /\ IF r = "called" /\ f.tags # <<>>
                             THEN IF PublishTasks(subs, f.tags) # <<>>
                                  THEN /\ Publish(f.tags, f.id)
                                       /\ pubCaller' = l
                                       /\ loops' = [loops EXCEPT ![l].pc =
                                                                     IF OnNewsAwaitsPublish
                                                                     THEN "handling"
                                                                     ELSE "waiting",
                                                                 ![l].msg = f.kind]
                                  ELSE /\ PublishDropped(0)
                                       /\ loops' = [loops EXCEPT ![l].msg = f.kind]
                                       /\ UNCHANGED pubCaller
                             ELSE /\ loops' = [loops EXCEPT ![l].msg = f.kind]
                                  /\ UNCHANGED <<busVars, pubCaller>>
    /\ UNCHANGED <<should_reconnect, ws, receive_task, attempt_count, current_delay, reset_from,
                   wired, unitVars, socks, cycDelay, disc>>

\* bus.publish returns to on_news, which returns to the receive loop
OnNewsReturn(l) ==
    /\ pubCaller = l
    /\ loops[l].pc = "handling"
    /\ ~loops[l].cancel
    /\ pubPc = "gather"
    /\ GatherReady(tasks)
    /\ PublishDropped(IF GatherRaises(tasks) THEN -1 ELSE Len(tasks))
    /\ pubCaller' = 0
    /\ loops' = [loops EXCEPT ![l].pc = "waiting"]
    /\ UNCHANGED <<should_reconnect, connected, ws, receive_task, attempt_count,
                   current_delay, reset_from, messages_received, message_count, wired, unitVars, socks, cyc, cycDelay, disc>>

\* the peer closes the connection, or the keepalive times out
NetClose(s) ==
    /\ socks[s] = "open"
    /\ socks' = [socks EXCEPT ![s] = "closed"]
    /\ UNCHANGED <<busVars, pubCaller, should_reconnect, connected, ws, receive_task,
                   attempt_count, current_delay, reset_from, messages_received, message_count, wired, unitVars, loops, cyc,
                   cycDelay, disc>>

\* the iteration over the socket ends (ConnectionClosed or end of stream)
RecvClosed(l) ==
    /\ loops[l].pc = "waiting"
    /\ ~loops[l].cancel
    /\ socks[loops[l].sock] = "closed"
    /\ LoopFinally(l)
    /\ UNCHANGED <<busVars, pubCaller, should_reconnect, ws, receive_task, attempt_count,
                   current_delay, reset_from, messages_received, message_count, wired, unitVars, socks, cycDelay, disc>>

\* disconnect() from `if self._ws:` on, up to `await self._ws.close()`
DiscClosePhase == IF ws = 0 THEN DiscDone ELSE [pc |-> "closing", task |-> 0, sock |-> ws]

\* Task.cancel() reaching the gather awaited by the task: every unfinished
\* child task gets a cancel request
CancelChildren(ts) ==
    [i \in 1..Len(ts) |-> IF ts[i].st \in {"scheduled", "running"}
                          THEN [ts[i] EXCEPT !.st = "cancelling"] ELSE ts[i]]

\* main() calls disconnect() once, in its shutdown path: disconnect() up to
\* its first await
DisconnectCall ==
    /\ disc.pc = "idle"
    /\ should_reconnect' = FALSE
    /\ connected' = FALSE
    /\ IF receive_task # 0 /\ ~LoopDone(receive_task)
       THEN /\ loops' = [loops EXCEPT ![receive_task].cancel = TRUE]
            /\ tasks' = IF loops[receive_task].pc = "handling" THEN CancelChildren(tasks)
                        ELSE tasks
            /\ disc' = [pc |-> "await_task", task |-> receive_task, sock |-> 0]
       ELSE /\ disc' = DiscClosePhase
            /\ UNCHANGED <<loops, tasks>>
    /\ UNCHANGED <<subs, pubPc, pubResult, pubChans, pubPayload, pubExpected, removed, regs,
                   pubCaller, ws, receive_task, attempt_count, current_delay, reset_from,
                   messages_received, message_count, wired, unitVars, socks, cyc, cycDelay>>

\* a cancelled callback task ends
TaskCancelled(i) ==
    /\ i \in 1..Len(tasks)
    /\ tasks[i].st = "cancelling"
    /\ tasks' = [tasks EXCEPT ![i].st = "cancelled"]
    /\ UNCHANGED <<subs, pubPc, pubResult, pubChans, pubPayload, pubExpected, removed, regs,
                   clientVars>>

\* CancelledError reaches the receive loop: a task not yet started ends at
\* once, a started one runs its `finally`; one awaiting publish does so when
\* the gather has collected every child
LoopCancelled(l) ==
    /\ loops[l].cancel
    /\ ~LoopDone(l)
    /\ IF loops[l].pc = "created"
       THEN /\ loops' = [loops EXCEPT ![l] = [pc |-> "cancelled", sock |-> 0, cancel |-> FALSE, msg |-> "none"]]
            /\ UNCHANGED <<connected, cyc, busVars, pubCaller>>
       ELSE /\ LoopFinally(l)
            /\ IF loops[l].pc = "handling"
               THEN /\ \A i \in 1..Len(tasks) : tasks[i].st \in {"done", "failed", "cancelled"}
                    /\ PublishDropped(-1)
                    /\ pubCaller' = 0
               ELSE UNCHANGED <<busVars, pubCaller>>
    /\ UNCHANGED <<should_reconnect, ws, receive_task, attempt_count, current_delay, reset_from,
                   messages_received, message_count, wired, unitVars, socks, cycDelay, disc>>

\* `await self._receive_task` returns
DisconnectAwaited ==
    /\ disc.pc = "await_task"
    /\ LoopDone(disc.task)
    /\ disc' = DiscClosePhase
    /\ UNCHANGED <<busVars, pubCaller, should_reconnect, connected, ws, receive_task,
                   attempt_count, current_delay, reset_from, messages_received, message_count, wired, unitVars, socks, loops,
                   cyc, cycDelay>>

\* `await self._ws.close()` returns or raises; `finally: self._ws = None`
DisconnectClosed ==
    /\ disc.pc = "closing"
    /\ socks' = [socks EXCEPT ![disc.sock] = "closed"]
    /\ ws' = 0
    /\ disc' = DiscDone
    /\ UNCHANGED <<busVars, pubCaller, should_reconnect, connected, receive_task,
                   attempt_count, current_delay, reset_from, messages_received, message_count, wired, unitVars, loops, cyc,
                   cycDelay>>

\* --------------------------------------------------------- client claims
\* C9: a receive loop that has handed an item to the pipeline can take the
\* next frame of its open socket while callbacks started for that item have
\* not finished.
C9_IngestionNotBlocked ==
    \A l \in LoopIds :
        (/\ loops[l].pc = "handling"
         /\ ~loops[l].cancel
         /\ should_reconnect
         /\ messages_received < MaxFrames
         /\ socks[loops[l].sock] = "open"
         /\ \E i \in 1..Len(tasks) : ~Finished(tasks[i]))
        => ENABLED (\E f \in Frames : RecvFrame(l, f))

\* C10: a connect-retry cycle raises only on an authentication error, returns
\* only after a successful attempt or with the stop flag set, goes on to its
\* error callback / sleep / next attempt after each retryable failure, and a
\* cycle that is attempting ends up connected, stopped or with an
\* authentication error.
C10_Step(k) ==
    /\ (cyc'[k] = "raised" /\ cyc[k] # "raised") => ConnectAuth(k)
    /\ (cyc'[k] = "returned" /\ cyc[k] # "returned") =>
           ConnectOk(k) \/ ReconnectCbDone(k) \/ ~should_reconnect
    /\ (cyc[k] = "connecting" /\ should_reconnect /\ attempt_count' = attempt_count + 1) =>
           cyc'[k] \in {"error_cb", "sleeping"}
    /\ (cyc[k] = "error_cb" /\ cyc'[k] # cyc[k]) => cyc'[k] = "sleeping"
    /\ (cyc[k] = "sleeping" /\ cyc'[k] # cyc[k] /\ should_reconnect) => cyc'[k] = "connecting"

C11_AuthNotRetried ==
    [][\A k \in CycleIds :
          /\ ConnectAuth(k) =>
                 /\ cyc'[k] = "raised"
                 /\ UNCHANGED <<attempt_count, current_delay, reset_from, cycDelay, connected, ws>>
          /\ cyc[k] = "raised" => cyc'[k] = "raised"]_vars

\* connect() has raised on a 401 that followed a retryable failure
C11_Witness ==
    /\ cyc["connect"] = "raised"
    /\ attempt_count = 1
    /\ ~connected
    /\ should_reconnect

\* C12: after a retryable failure (stop flag not set) the delay is computed
\* from the backoff state, then the registered error callback runs, then the
\* cycle sleeps with that same delay, and only a finished sleep leads to the
\* next attempt; an error callback that raises leads to the sleep as well.
C12_RetryOrder ==
    [][\A k \in CycleIds :
          /\ (ConnectFail(k) /\ should_reconnect) =>
                 /\ cycDelay'[k] \in NextDelayReturns(current_delay)
                 /\ current_delay' = NextCurrentDelay(current_delay)
                 /\ attempt_count' = attempt_count + 1
                 /\ cyc'[k] = IF wired THEN "error_cb" ELSE "sleeping"
          /\ (cyc[k] = "error_cb" /\ cyc'[k] # "error_cb") =>
                 /\ cyc'[k] = "sleeping"
                 /\ cycDelay'[k] = cycDelay[k]
          /\ cyc[k] \in {"error_cb", "sleeping"} => cycDelay[k] >= MinDelay
          /\ (cyc[k] = "sleeping" /\ cyc'[k] = "sleeping") => cycDelay'[k] = cycDelay[k]
          /\ (cyc[k] = "sleeping" /\ cyc'[k] # "sleeping") =>
                 cyc'[k] = IF should_reconnect THEN "connecting" ELSE "returned"
          /\ (cyc'[k] = "connecting" /\ cyc[k] # "connecting") =>
                 cyc[k] \in {"idle", "start", "sleeping"}]_vars

\* the cycle of connect() sleeps with the delay computed at its second
\* consecutive failure, its error callback having run
C12_Witness ==
    /\ wired
    /\ cyc["connect"] = "sleeping"
    /\ attempt_count = 2
    /\ cycDelay["connect"] \in NextDelayReturns(InitialDelay * Multiplier)
    /\ current_delay = InitialDelay * Multiplier * Multiplier

\* C13: a successful attempt resets the backoff state before its cycle
\* returns (attempt_count = 0, current_delay = initial delay), a zero counter
\* always goes with the initial delay, and the first failure after a reset
\* draws its delay from the initial delay.
C13_ResetOnSuccess ==
    /\ [][\A k \in CycleIds :
             /\ ((ConnectOk(k) \/ ReconnectCbDone(k)) /\ cyc'[k] = "returned") =>
                    /\ attempt_count' = 0
                    /\ current_delay' = InitialDelay
             /\ (ConnectFail(k) /\ should_reconnect /\ attempt_count = 0) =>
                    cycDelay'[k] \in NextDelayReturns(InitialDelay)]_vars
    /\ [](attempt_count = 0 => current_delay = InitialDelay)

\* after a connect that needed MaxAttempts failures and was reset, the
\* connection dropped and the reconnect cycle sleeps after its first failure
C13_Witness ==
    /\ reset_from = MaxAttempts
    /\ cyc["connect"] = "returned"
    /\ cyc["auto"] = "sleeping"
    /\ attempt_count = 1
    /\ cycDelay["auto"] \in NextDelayReturns(InitialDelay)

\* C14: on a successful attempt the registered reconnect callback runs exactly
\* when attempt_count is above 0; it runs before the receive loop is created,
\* and whether it returns or raises the loop is created and the cycle returns
\* connected.
C14_ReconnectCallback ==
    [][\A k \in CycleIds :
          /\ (ConnectOk(k) /\ wired) =>
                 /\ (cyc'[k] = "reconnect_cb") <=> (attempt_count > 0)
                 /\ (cyc'[k] = "returned") <=> (attempt_count = 0)
                 /\ cyc'[k] = "reconnect_cb" => UNCHANGED <<receive_task, loops>>
          /\ (cyc'[k] = "reconnect_cb" /\ cyc[k] # "reconnect_cb") => ConnectOk(k)
          /\ (cyc[k] = "reconnect_cb" /\ cyc'[k] # "reconnect_cb") =>
                 /\ cyc'[k] = "returned"
                 /\ loops[receive_task'].pc # "created"
                 /\ loops'[receive_task'].pc = "created"
                 /\ UNCHANGED <<ws, socks>>]_vars

\* the reconnect callback of the reconnect cycle has run after one failed
\* attempt, and the receive loop of the new connection is reading
C14_Witness ==
    /\ wired
    /\ reset_from = 1
    /\ cyc["auto"] = "returned"
    /\ connected
    /\ receive_task # 0
    /\ loops[receive_task].pc = "waiting"
    /\ loops[receive_task].sock = ws

\* C15: a receive loop that ends while the stop flag is not set ends through
\* its `finally`, which creates a connect-retry task (nothing stands in the way
\* of creating it); with the stop flag set the end of a loop creates no task;
\* a created reconnect task leads to a connected client, unless the client is
\* stopped or the feed answers 401.
C15_ReconnectOnExit ==
    /\ [][\A l \in LoopIds :
             (~LoopDone(l) /\ loops'[l].pc \in {"returned", "exited", "cancelled"}) =>
                 IF should_reconnect
                 THEN /\ loops'[l].pc = "exited"
                      /\ cyc["auto"] # "start"
                      /\ cyc'["auto"] = "start"
                 ELSE UNCHANGED cyc]_vars
    /\ [](\A l \in LoopIds : (~LoopDone(l) /\ should_reconnect) => ~CycleRunning("auto"))
    /\ (cyc["auto"] = "start") ~> (connected \/ ~should_reconnect \/ cyc["auto"] = "raised")

\* the connection dropped, the reconnect task connected again, and the receive
\* loop it started is handling an item of the new connection
C15_Witness ==
    /\ cyc["auto"] = "returned"
    /\ should_reconnect
    /\ connected
    /\ receive_task # 0
    /\ loops[receive_task].pc = "handling"
    /\ loops[receive_task].sock = ws
    /\ message_count > 0

\* frame f leaves loop l reading the same socket, with no reconnect started
\* and nothing published
KeepsReading(l) ==
    /\ messages_received' = messages_received + 1
    /\ loops'[l].pc = "waiting"
    /\ loops'[l].sock = loops[l].sock
    /\ UNCHANGED <<connected, cyc, ws, socks, receive_task, attempt_count, tasks, pubPc>>

\* loop l can take a valid item as its next frame
CanTakeItem(l) ==
    ENABLED (\E f \in Frames : f.kind = "item" /\ RecvFrame(l, f)
                                /\ messages_received' = messages_received + 1)

\* loop l has just handled a frame of kind k and reads on, the stop flag not
\* set and the feed not yet past MaxFrames frames
ReadsOnAfter(l, k) ==
    /\ loops[l].pc = "waiting"
    /\ loops[l].msg = k
    /\ ~loops[l].cancel
    /\ socks[loops[l].sock] = "open"
    /\ should_reconnect
    /\ messages_received < MaxFrames

\* every valid item taken by a loop of a wired client reaches the message callback
ItemsDelivered ==
    \A l \in LoopIds, f \in Frames :
        (f.kind = "item" /\ wired /\ should_reconnect /\ RecvFrame(l, f)) =>
            message_count' = message_count + 1

\* C16: a frame that is not valid JSON, text that json.loads rejects or bytes
\* that do not decode, is counted, the message callback is not called for it,
\* the loop reads on from the same socket with no reconnect, and a valid item
\* that follows is taken and reaches the callback.
C16_BadJsonDropped ==
    /\ [][/\ \A l \in LoopIds, f \in Frames :
                (f.kind \in {"badjson", "badutf8"} /\ should_reconnect /\ RecvFrame(l, f)) =>
                    /\ message_count' = message_count
                    /\ KeepsReading(l)
            /\ ItemsDelivered]_vars
    /\ [](\A l \in LoopIds :
             (ReadsOnAfter(l, "badjson") \/ ReadsOnAfter(l, "badutf8")) => CanTakeItem(l))

\* C17: a frame that is JSON but fails normalization, a mapping without a
\* required field or a value that is no mapping, is counted and dropped: no
\* callback, the loop reads on from the same socket with no reconnect, and a
\* valid item that follows is taken and reaches the callback.
C17_BadNormDropped ==
    /\ [][/\ \A l \in LoopIds, f \in Frames :
                (f.kind \in {"badnorm", "nonmap"} /\ should_reconnect /\ RecvFrame(l, f)) =>
                    /\ message_count' = message_count
                    /\ KeepsReading(l)
            /\ ItemsDelivered]_vars
    /\ [](\A l \in LoopIds :
             (ReadsOnAfter(l, "badnorm") \/ ReadsOnAfter(l, "nonmap")) => CanTakeItem(l))

\* C18: an item on which the message callback raises is counted, the callback
\* having been called; the loop reads on from the same socket with no
\* reconnect, and a valid item that follows is taken and reaches the callback.
C18_CallbackErrorContained ==
    /\ [][/\ \A l \in LoopIds, f \in Frames :
                (f.kind = "poison" /\ wired /\ should_reconnect /\ RecvFrame(l, f)) =>
                    /\ message_count' = message_count + 1
                    /\ KeepsReading(l)
            /\ ItemsDelivered]_vars
    /\ [](\A l \in LoopIds : ReadsOnAfter(l, "poison") => CanTakeItem(l))

\* the message callback of a wired, connected client has raised on the first
\* item and the loop is reading the same socket
C18_Witness ==
    \E l \in LoopIds :
        /\ ReadsOnAfter(l, "poison")
        /\ wired
        /\ connected
        /\ receive_task = l
        /\ loops[l].sock = ws
        /\ messages_received = 1
        /\ message_count = 1
        /\ cyc["auto"] = "idle"

\* C19: whatever the state disconnect() is called in, when it returns the stop
\* flag is set, connected is false, no socket is held and the receive task is
\* not running.
C19_DisconnectEndState ==
    [][(disc.pc # "done" /\ disc'.pc = "done") =>
           /\ ~should_reconnect'
           /\ ~Connected'
           /\ ws' = 0
           /\ receive_task' # 0 =>
                  loops'[receive_task'].pc \in {"none", "returned", "exited", "cancelled"}]_vars

\* C20: once disconnect() has returned, and connect() has not been called
\* after it (the stop flag is still set), the client holds no socket, does not
\* report connected, has no receive loop and no cycle past a successful
\* attempt, whatever a connect-retry cycle was doing when disconnect() was
\* called.
C20_DisconnectCancelsRetry ==
    (disc.pc = "done" /\ ~should_reconnect) =>
        /\ ~Connected
        /\ ws = 0
        /\ \A l \in LoopIds : LoopDone(l)
        /\ \A k \in CycleIds : cyc[k] # "reconnect_cb"

OpenSocks == {s \in SockIds : socks[s] = "open"}

RunningLoops == {l \in LoopIds : ~LoopDone(l)}

\* C21: in every reachable state at most one socket is open and at most one
\* receive loop is running.
C21_OneLiveConnection ==
    /\ Cardinality(OpenSocks) <= 1
    /\ Cardinality(RunningLoops) <= 1

\* C22: a subscriber callback that a publish has started is never cancelled,
\* in particular not by disconnect() called while the receive loop handles
\* the message: it goes on running until it returns or raises.
C22_CallbacksNotCancelled ==
    [][\A i \in DOMAIN tasks :
           (tasks[i].st = "running" /\ i \in DOMAIN tasks')
               => tasks'[i].st \in {"running", "done", "failed"}]_vars

\* ------------------------------------------- ReconnectionState on its own
\* everything but the fields of the ReconnectionState and its caller's locals
backoffRest == <<busVars, pubCaller, should_reconnect, connected, ws, receive_task,
                 reset_from, messages_received, message_count, wired, socks, loops, cyc,
                 cycDelay, disc>>

\* next_delay()
NextDelay ==
    /\ delay_calls < MaxCalls
    /\ \E d \in NextDelayReturns(current_delay) : returned_delay' = d
    /\ current_delay' = NextCurrentDelay(current_delay)
    /\ attempt_count' = attempt_count + 1
    /\ delay_calls' = delay_calls + 1
    /\ UNCHANGED <<initial_delay_seconds, backoffRest, routerVars, feedVars, marketVars, groqVars, moreVars>>

\* reset()
Reset ==
    /\ current_delay' = ResetState.current_delay
    /\ attempt_count' = ResetState.attempt_count
    /\ delay_calls' = 0
    /\ UNCHANGED <<initial_delay_seconds, returned_delay, backoffRest, routerVars, feedVars, marketVars, groqVars, moreVars>>

\* C23: from construction on, for every configured initial delay,
\* current_delay lies within [initial_delay, max_delay] and attempt_count is
\* the number of next_delay() calls since construction or the last reset().
C23_DelayBounded ==
    /\ initial_delay_seconds <= current_delay
    /\ current_delay <= MaxDelay
    /\ attempt_count = delay_calls

\* min(initial_delay * multiplier^k, max_delay)
BaseDelay(k) == Min(initial_delay_seconds * Multiplier ^ k, MaxDelay)

\* C24: the k-th consecutive next_delay() call after construction or reset
\* returns a value within +/- jitter_factor of
\* min(initial_delay * multiplier^k, max_delay), at least 0.1 s and at most
\* max_delay * (1 + jitter_factor); it sets current_delay to
\* min(current_delay * multiplier, max_delay) and adds 1 to attempt_count.
C24_KthDelay ==
    [][delay_calls' = delay_calls + 1 =>
           LET b == BaseDelay(delay_calls)
           IN /\ returned_delay' * 100 >= b * (100 - JitterPct)
              /\ returned_delay' * 100 <= b * (100 + JitterPct)
              /\ returned_delay' >= MinDelay
              /\ returned_delay' * 100 <= MaxDelay * (100 + JitterPct)
              /\ current_delay' = Min(current_delay * Multiplier, MaxDelay)
              /\ attempt_count' = attempt_count + 1]_vars

\* ------------------------------------------------------- channel router
Urgencies == {"breaking", "high", "normal", "low"}

\* ticker strings as the feed sends them, in the order of sorted()
TickerOrder == <<"BTC", "ETH", "btc">>

TickerStrings == Range(TickerOrder)

\* str.upper()
Upper(t) == IF t = "btc" THEN "BTC" ELSE t

\* sorted(S) for a set of ticker strings
SortedTickers(S) == SelectSeq(TickerOrder, LAMBDA t : t \in S)

\* NewsTagger._extract_tickers on the `coins` list of a message: the distinct
\* strings, sorted (the cut at 20 is beyond the lists followed here)
ExtractTickers(coins) == SortedTickers(Range(coins))

\* NewsTagger._classify_categories: the distinct categories sorted by value
CategoryTuples == {<<>>, <<"crypto">>, <<"politics">>, <<"crypto", "politics">>}

NoItem == [urgency |-> "none", categories |-> <<>>, tickers |-> <<>>]

TaggedItems ==
    {[urgency |-> u, categories |-> c, tickers |-> ExtractTickers(k)] :
         u \in Urgencies, c \in CategoryTuples, k \in SeqsUpTo(TickerStrings, MaxCoins)}

ALL == "news:all"

urgency_channel(urgency) == "news:urgency:" \o urgency

CATEGORY_PREFIX == "news:category:"

TICKER_PREFIX == "news:ticker:"

category_channel(category) == CATEGORY_PREFIX \o category

ticker_channel(ticker) == TICKER_PREFIX \o Upper(ticker)

\* channels_for_item(item): the list `result`
channels_for_item(it) ==
    <<ALL, urgency_channel(it.urgency)>>
    \o [i \in 1..Len(it.categories) |-> category_channel(it.categories[i])]
    \o [i \in 1..Len(it.tickers) |-> ticker_channel(it.tickers[i])]

\* everything but the router's variables
routerRest == <<busVars, pubCaller, should_reconnect, connected, ws, receive_task,
                attempt_count, current_delay, reset_from, messages_received,
                message_count, wired, socks, loops, cyc, cycDelay, disc, backoffVars,
                feedVars, marketVars, groqVars, moreVars>>

\* one call channels_for_item(it)
ChannelsForItem(it) ==
    /\ item' = it
    /\ result' = channels_for_item(it)
    /\ UNCHANGED routerRest

NoDuplicates(q) == \A i, j \in 1..Len(q) : i # j => q[i] # q[j]

\* C25: for every tagged item the router returns exactly
\* 1 + 1 + |categories| + |tickers| names without duplicates: the global
\* channel, the urgency channel of the item, one channel per category, one
\* per ticker and nothing else, also when tickers differ only in letter case.
C25_ChannelsExact ==
    item # NoItem =>
        /\ Len(result) = 1 + 1 + Len(item.categories) + Len(item.tickers)
        /\ NoDuplicates(result)
        /\ Range(result) =
               {ALL, urgency_channel(item.urgency)}
               \cup {category_channel(c) : c \in Range(item.categories)}
               \cup {ticker_channel(t) : t \in Range(item.tickers)}

\* the four forms of a channel name: `all`, `urgency:{level}`,
\* `category:{slug}`, `ticker:{SYMBOL}` with the symbol in upper case
NamedChannels ==
    {"all"}
    \cup {"urgency:" \o u : u \in Urgencies}
    \cup {"category:" \o c : c \in Channels}
    \cup {"ticker:" \o Upper(t) : t \in TickerStrings}

\* C26: every channel name the router returns, and every channel name an
\* item is published under on the bus, is `all`, `urgency:{level}`,
\* `category:{slug}` or `ticker:{SYMBOL}` with the symbol upper-cased.
C26_ChannelNames ==
    /\ Range(result) \subseteq NamedChannels
    /\ Range(pubChans) \subseteq NamedChannels

\* ------------------------------------- broker transport and AgentListener
\* market.tags of the listener's market
MarketTags == <<"crypto">>

\* AgentListener._feeds: news:all, then the category channel of each tag not
\* yet in the list
Feeds(tags) ==
    LET F[i \in 0..Len(tags)] ==
            IF i = 0 THEN <<ALL>>
            ELSE LET ch == CATEGORY_PREFIX \o tags[i]
                 IN IF ch \in Range(F[i - 1]) THEN F[i - 1] ELSE Append(F[i - 1], ch)
    IN F[Len(tags)]

\* FeedPublisher.publish_many(channels, data) as seen by a connection
\* subscribed to `feeds`: one PUBLISH per channel of the list, and every
\* PUBLISH on a subscribed channel puts one message on the connection
Deliveries(channels, feeds, id) ==
    LET hit == SelectSeq(channels, LAMBDA ch : ch \in Range(feeds))
    IN [i \in 1..Len(hit) |-> [channel |-> hit[i], id |-> id]]

\* everything but the transport and the listener
feedRest == <<busVars, pubCaller, should_reconnect, connected, ws, receive_task,
              attempt_count, current_delay, reset_from, messages_received,
              message_count, wired, socks, loops, cyc, cycDelay, disc, backoffVars,
              routerVars, decisions, last_scoring, groqVars, moreVars>>

\* NewsPublisher.publish(item) for the next story, up to n stories; the
\* stories followed are published one after the other, each when the
\* listener has taken the messages of the one before
NewsPublish(n, it) ==
    /\ published < n
    /\ queue = <<>>
    /\ lpc = "pull"
    /\ published' = published + 1
    /\ queue' = Deliveries(channels_for_item(it), Feeds(MarketTags), published + 1)
    /\ pulls' = 0
    /\ evals' = 0
    /\ UNCHANGED <<listener_seen, lpc, last_outcome, recovered, feedRest>>

\* `seen.add(story_id)`, then `if len(seen) > 500: seen.clear()`
SeenAdd(sn, id) ==
    IF Cardinality(sn \cup {id}) > SeenCap THEN {} ELSE sn \cup {id}

\* one round of the loop of AgentListener.run: FeedSubscriber.pull returns the
\* oldest message, then the `seen` test and the call of _on_story up to its
\* `await self._evaluate_fn(...)`
PullStory ==
    /\ lpc = "pull"
    /\ queue # <<>>
    /\ queue' = Tail(queue)
    /\ pulls' = pulls + 1
    /\ IF Head(queue).id \in listener_seen
       THEN UNCHANGED <<listener_seen, lpc, evals>>
       ELSE /\ listener_seen' = SeenAdd(listener_seen, Head(queue).id)
            /\ lpc' = "eval"
            /\ evals' = evals + 1
    /\ UNCHANGED <<published, last_outcome, recovered, feedRest>>

\* `try: decision = await self._evaluate_fn(...)` / `except Exception: ... return`
EvalErrorCaught == TRUE

\* the rest of AgentListener._on_story: evaluate_fn returns a decision, which
\* is counted and handed to on_decision, or raises
ListenerOnStory(o) ==
    /\ lpc = "eval"
    /\ lpc' = IF o = "raised" /\ ~EvalErrorCaught THEN "crashed" ELSE "pull"
    /\ last_outcome' = IF o = "raised" THEN "error" ELSE "decision"
    /\ recovered' = IF o = "returned" /\ last_outcome = "error"
                    THEN recovered \cup {"listener"} ELSE recovered
    /\ UNCHANGED <<published, queue, listener_seen, pulls, evals, feedRest>>

\* C27: an item that NewsPublisher publishes to its channel list is obtained
\* from pull() at most once by a FeedSubscriber, however many of the channels
\* it is subscribed to, as a callback of PubSub is invoked once per publish.
C27_PulledOnce == pulls <= 1

\* C28: _on_story is invoked at most once per story id, whatever the number
\* of its channels the story arrives on and of stories processed before it.
C28_EvaluatedOnce == evals <= 1

\* ------------------------------------------------ per-market callback
\* variant: an exception of the scoring call leaves the callback
ScoringErrorCaughtOff == FALSE

\* `try: result = await agent.evaluate.remote.aio(...)` /
\* `except Exception: ... return`, the same around mock_evaluate and
\* groq_evaluate
ScoringErrorCaught == TRUE

\* on_news called with a story of categories chs: the count, then the publish
\* on the bus unless there is no category
OnNews(chs, p) ==
    /\ message_count < MaxFrames
    /\ message_count' = message_count + 1
    /\ IF chs = <<>> THEN UNCHANGED busVars ELSE Publish(chs, p)
    /\ UNCHANGED <<pubCaller, should_reconnect, connected, ws, receive_task, attempt_count,
                   current_delay, reset_from, messages_received, wired, unitVars, socks,
                   loops, cyc, cycDelay, disc>>

\* variant: the decision is published on the channels the story came from
BroadcastDecisionOnBus(d, chs, p) ==
    LET cbs == PublishTasks(d, chs)
    IN [i \in 1..Len(cbs) |-> [cb |-> cbs[i], arg |-> p, st |-> "scheduled"]]

\* `asyncio.create_task(ws_server.broadcast_decision(result))`: the callback
\* tasks the decision adds to the bus. WebSocketServer.broadcast_decision
\* sends the decision to the connected websocket clients and never calls the
\* bus, so there is none
BroadcastDecision(d, chs, p) == <<>>

\* the callback _on_story of a market, from its scoring call on: the call
\* raises and the callback returns, or it returns a result and the callback
\* creates the broadcast_decision task
OnStoryReturn(i, o) ==
    /\ i \in 1..Len(tasks)
    /\ tasks[i].st = "running"
    /\ tasks' = [tasks EXCEPT ![i].st = IF o = "raised" /\ ~ScoringErrorCaught
                                         THEN "failed" ELSE "done"]
                 \o (IF o = "raised" THEN <<>>
                     ELSE BroadcastDecision(subs, pubChans, pubPayload))
    /\ decisions' = IF o = "raised" THEN decisions ELSE decisions + 1
    /\ last_scoring' = [last_scoring EXCEPT ![tasks[i].cb] = o]
    /\ recovered' = IF o = "returned" /\ last_scoring[tasks[i].cb] = "raised"
                    THEN recovered \cup {tasks[i].cb} ELSE recovered
    /\ removed' = FALSE
    /\ UNCHANGED <<subs, pubPc, pubResult, pubChans, pubPayload, pubExpected, regs,
                   pubCaller, should_reconnect, connected, ws, receive_task, attempt_count,
                   current_delay, reset_from, messages_received, message_count, wired,
                   backoffVars, routerVars, feedVars, groqVars, moreVars, socks, loops, cyc,
                   cycDelay,
                   disc>>

\* C30: when the scoring call raises for a story, the market's callback
\* returns without raising and emits no decision, on the bus and in the
\* AgentListener; no callback ever fails and the listener's loop never ends,
\* so the market goes on scoring later stories.
C30_ScoringFailureTolerated ==
    /\ [][\A i \in DOMAIN tasks :
              (/\ tasks[i].st = "running"
               /\ i \in DOMAIN tasks'
               /\ tasks'[i].st # "running"
               /\ last_scoring'[tasks[i].cb] = "raised")
                  => /\ tasks'[i].st = "done"
                     /\ decisions' = decisions
                     /\ subs' = subs]_vars
    /\ [][(lpc = "eval" /\ lpc' # "eval" /\ last_outcome' = "error")
              => lpc' = "pull" /\ recovered' = recovered]_vars
    /\ [](\A i \in DOMAIN tasks : tasks[i].st # "failed")
    /\ [](lpc # "crashed")

\* a market callback of the bus and the listener have each emitted a decision
\* for the story that followed one whose scoring raised
C30_Witness ==
    /\ "S1" \in recovered
    /\ "listener" \in recovered
    /\ decisions > 0

\* C31: a market callback that completes creates no callback task and starts
\* no publish on the bus, changes no registration and puts nothing on the
\* broker's news channels: its decision goes to the decision output alone (as
\* the AgentListener's goes to on_decision). So during and after a publish
\* every callback registered on a published channel has exactly one task, and
\* no other callback has any.
C31_NoFeedback ==
    /\ [][\A i \in DOMAIN tasks :
              (tasks[i].st = "running" /\ i \in DOMAIN tasks' /\ tasks'[i].st # "running")
                  => /\ Len(tasks') = Len(tasks)
                     /\ UNCHANGED <<subs, pubPc, pubChans, pubPayload, message_count,
                                    published, queue>>
                     /\ decisions' \in {decisions, decisions + 1}]_vars
    /\ [][(lpc = "eval" /\ lpc' # "eval")
              => UNCHANGED <<subs, tasks, pubPc, pubChans, message_count, published,
                             queue>>]_vars
    /\ [](pubPc \in {"gather", "returned"} =>
              \A cb \in Callbacks :
                  Cardinality({i \in 1..Len(tasks) : tasks[i].cb = cb})
                      = IF cb \in Recipients(subs, pubChans) THEN 1 ELSE 0)

\* the story published on politics and crypto was scored once by each of the
\* two markets, both decisions were emitted and the publish returned 2; the
\* listener emitted a decision for a story of the broker
C31_Witness ==
    /\ pubPc = "returned"
    /\ pubChans = <<"politics", "crypto">>
    /\ pubResult = 2
    /\ Len(tasks) = 2
    /\ \A i \in 1..Len(tasks) : tasks[i].st = "done"
    /\ decisions = 2
    /\ message_count = 1
    /\ published = 1
    /\ last_outcome = "decision"

\* ----------------------------------------------------------- GroqClient
\* what one chat-completion request can come to: a completion whose content
\* is a JSON object with a readable action ("ok"), is empty, is no JSON, has
\* an action string no action can be read from or a null action
\* ("badaction"), an action that is no string ("nonstr_action"), a `p` that
\* is no number ("badp"); or the exceptions RateLimitError, APITimeoutError,
\* APIStatusError with a 5xx or another status, APIConnectionError
ResponseKinds ==
    {"ok", "empty", "badjson", "badaction", "nonstr_action", "badp",
     "ratelimit", "timeout", "5xx", "4xx", "connerr"}

\* one pass of the body of the `for attempt` loop on response r: "retry"
\* (`continue`), "fallthrough" (the except clause ends without raising),
\* "returned", or the exception that leaves classify
AttemptOutcome(r, a) ==
    IF r = "ok" THEN "returned"
    ELSE IF r \in {"empty", "badaction"} THEN "GroqClassificationError"
    ELSE IF r = "badjson" THEN "GroqClassificationError"
    ELSE IF r = "nonstr_action" THEN "AttributeError"
    ELSE IF r = "badp" THEN "ValueError"
    ELSE IF r \in {"ratelimit", "timeout"}
         THEN (IF a < MAX_RETRIES THEN "retry" ELSE "fallthrough")
    ELSE IF r = "5xx"
         THEN (IF a < MAX_RETRIES THEN "retry" ELSE "GroqClassificationError")
    ELSE IF r = "4xx" THEN "GroqClassificationError"
    ELSE "APIConnectionError"

\* everything but the variables of classify
groqRest == <<busVars, pubCaller, should_reconnect, connected, ws, receive_task,
              attempt_count, current_delay, reset_from, messages_received,
              message_count, wired, socks, loops, cyc, cycDelay, disc, backoffVars,
              routerVars, feedVars, marketVars, moreVars>>

\* classify(system_prompt, user_prompt) up to its first request
Classify ==
    /\ groq_pc # "request"
    /\ classify_calls < MaxClassify
    /\ classify_calls' = classify_calls + 1
    /\ groq_pc' = "request"
    /\ attempt' = 0
    /\ last_error' = "none"
    /\ responses' = <<>>
    /\ UNCHANGED groqRest

\* the request comes to r: the rest of the loop body, then the next request,
\* or the end of classify (after the loop: raise GroqClassificationError)
Respond(r) ==
    /\ groq_pc = "request"
    /\ responses' = Append(responses, r)
    /\ last_error' = IF r \in {"ratelimit", "timeout"}
                        \/ (r = "5xx" /\ attempt < MAX_RETRIES)
                     THEN r ELSE last_error
    /\ LET o == AttemptOutcome(r, attempt)
       IN IF o = "retry" \/ (o = "fallthrough" /\ attempt + 1 < 1 + MAX_RETRIES)
          THEN /\ attempt' = attempt + 1
               /\ groq_pc' = "request"
          ELSE /\ groq_pc' = IF o = "fallthrough" THEN "GroqClassificationError" ELSE o
               /\ UNCHANGED attempt
    /\ UNCHANGED <<classify_calls, groqRest>>

TransientKinds == {"ratelimit", "timeout", "5xx"}

\* C29: one classify() call makes at most two requests, makes the second
\* only after a transient failure of the first (rate limit, timeout, 5xx),
\* and ends with a classification error when its last request came to a
\* JSON-decode failure, an empty response, an action field no action can be
\* read from, a non-5xx API error or a second transient failure.
C29_BoundedScoring ==
    /\ Len(responses) <= 2
    /\ \A i \in 1..(Len(responses) - 1) : responses[i] \in TransientKinds
    /\ (groq_pc \notin {"idle", "request"} /\ responses # <<>>
            /\ responses[Len(responses)] \in
                   TransientKinds \cup {"badjson", "empty", "badaction", "nonstr_action", "4xx"})
        => groq_pc = "GroqClassificationError"

\* C37: with a reconnect callback registered, a successful attempt calls it
\* exactly when the connection replaces one that was lost, that is when the
\* attempt is made by the reconnect task that the end of a receive loop
\* created, however many attempts failed before it; a successful attempt of
\* connect(), the first connection of the client, does not call it.
C37_ReconnectCallbackOnLoss ==
    [][\A k \in CycleIds :
          (ConnectOk(k) /\ wired) =>
              /\ (cyc'[k] = "reconnect_cb") <=> (k = "auto")
              /\ (cyc'[k] = "returned") <=> (k = "connect")]_vars

\* C38: a receive loop takes the next frame of its connection only when the
\* message callback has returned for the frame before: while a publish that
\* on_news made for a frame of the loop has a subscriber callback not yet
\* finished, the loop is inside that call and takes no frame, so the
\* subscribers get the items of a connection one after the other in the order
\* of the frames.
C38_FramesOneAtATime ==
    /\ [](\A l \in LoopIds :
              (pubCaller = l /\ \E i \in 1..Len(tasks) :
                                    tasks[i].st \in {"scheduled", "running"})
                  => loops[l].pc = "handling")
    /\ [][\A l \in LoopIds :
              (messages_received' = messages_received + 1 /\ loops'[l] # loops[l])
                  => /\ loops[l].pc = "waiting"
                     /\ pubCaller # l]_vars

\* the loop of the connection is inside the callback for its second frame,
\* published to both markets, one of which is scoring it
C38_Witness ==
    \E l \in LoopIds :
        /\ pubCaller = l
        /\ receive_task = l
        /\ loops[l].pc = "handling"
        /\ messages_received = 2
        /\ message_count = 2
        /\ pubPayload = "p2"
        /\ Len(tasks) = 2
        /\ tasks[1].st = "running"
        /\ tasks[2].st = "scheduled"
        /\ cyc["auto"] = "idle"

\* -------------------------------------------------------------- NewsTagger
\* RawNewsItem as the tagger reads it: the id, the hints urgency_tags,
\* is_priority and is_narrative, and `cats`, the categories that
\* _classify_categories finds for the item
NoNews == [id |-> "none", urgency_tags |-> {}, is_priority |-> FALSE,
           is_narrative |-> FALSE, cats |-> <<>>]

NewsItems ==
    [id : Payloads, urgency_tags : SUBSET {"HOT", "WARM"}, is_priority : BOOLEAN,
     is_narrative : BOOLEAN, cats : CategoryTuples]

\* NewsTagger._determine_urgency
DetermineUrgency(n) ==
    IF "HOT" \in n.urgency_tags THEN "breaking"
    ELSE IF n.is_priority THEN "high"
    ELSE IF n.is_narrative THEN "normal"
    ELSE "normal"

\* the sub-steps of tag() in call order
TagSteps == <<"tickers", "categories", "sentiment", "keywords", "urgency",
              "platform_tags", "construct">>

\* what leaves a sub-step that goes wrong: sorted() of tickers or keywords of
\* mixed types raises TypeError, t.upper() on a ticker that is no string
\* AttributeError, the sentiment analyzer or the reading of its result
\* KeyError, TaggedNewsItem.__post_init__ ValueError (a score out of range);
\* _match_platform_tags catches what its loader raises and returns no tags;
\* _determine_urgency only tests membership and flags
StepException(step) ==
    CASE step \in {"tickers", "keywords"} -> "TypeError"
      [] step = "categories" -> "AttributeError"
      [] step = "sentiment" -> "KeyError"
      [] step = "construct" -> "ValueError"
      [] OTHER -> "none"

\* the sub-step of a tag() call that goes wrong, or "none"
TagFaults == {"none"} \cup (Range(TagSteps) \ {"urgency"})

\* variant: tag() wraps the constructor's ValueError only
TagCaughtValueError(exc) == exc = "ValueError"

\* `except Exception as e:` of tag()
TagCaught(exc) == TRUE

NoTagged == [kind |-> "none", id |-> "none", categories |-> <<>>, urgency |-> "none"]

\* tag(n) when sub-step f goes wrong: the TaggedNewsItem returned, or the
\* exception that leaves tag()
TagOutcome(n, f) ==
    LET exc == StepException(f)
    IN IF exc = "none"
       THEN [kind |-> "tagged", id |-> n.id, categories |-> n.cats,
             urgency |-> DetermineUrgency(n)]
       ELSE [kind |-> IF TagCaught(exc) THEN "TaggingError" ELSE exc,
             id |-> "none", categories |-> <<>>, urgency |-> "none"]

\* the effect of one call tag(n) on the tagger
TagCall(n, f) ==
    /\ tag_calls' = tag_calls + 1
    /\ news' = n
    /\ tagged' = TagOutcome(n, f)
    /\ items_tagged' = IF StepException(f) = "none" THEN items_tagged + 1 ELSE items_tagged
    /\ items_failed' = IF StepException(f) # "none" /\ TagCaught(StepException(f))
                       THEN items_failed + 1 ELSE items_failed

\* everything but the tagger
taggerRest == <<busVars, pubCaller, should_reconnect, connected, ws, receive_task,
                attempt_count, current_delay, reset_from, messages_received,
                message_count, wired, socks, loops, cyc, cycDelay, disc, backoffVars,
                routerVars, feedVars, marketVars, groqVars, news_cb, serializerVars,
                toggleVars, streamVars>>

\* one call tag(n)
Tag(n, f) ==
    /\ tag_calls < MaxTagCalls
    /\ TagCall(n, f)
    /\ UNCHANGED taggerRest

\* C33: every tag() call either returns a tagged item of the news given and
\* adds 1 to items_tagged alone, or raises TaggingError with no result and
\* adds 1 to items_failed alone; nothing else leaves tag(), and the two
\* counters add up to the number of calls.
C33_TagTwoOutcomes ==
    /\ [][tag_calls' # tag_calls =>
              \/ /\ tagged'.kind = "tagged"
                 /\ tagged'.id = news'.id
                 /\ tagged'.categories = news'.cats
                 /\ tagged'.urgency \in Urgencies
                 /\ items_tagged' = items_tagged + 1
                 /\ items_failed' = items_failed
              \/ /\ tagged' = [NoTagged EXCEPT !.kind = "TaggingError"]
                 /\ items_failed' = items_failed + 1
                 /\ items_tagged' = items_tagged]_vars
    /\ [](items_tagged + items_failed = tag_calls)

\* three calls: one returned an item, two raised TaggingError, the last of
\* them when the sentiment analysis went wrong
C33_Witness ==
    /\ tag_calls = 3
    /\ items_tagged = 1
    /\ items_failed = 2
    /\ tagged.kind = "TaggingError"

\* C34: the urgency of a tagged item is breaking when "HOT" is among the
\* urgency tags, else high when the item is a priority item or "WARM" is
\* among the urgency tags, else normal.
C34_UrgencyDerivation ==
    tagged.kind = "tagged" =>
        tagged.urgency = IF "HOT" \in news.urgency_tags THEN "breaking"
                         ELSE IF news.is_priority \/ "WARM" \in news.urgency_tags
                              THEN "high"
                         ELSE "normal"

\* ------------------------------------------------------ message callbacks
\* the items the callbacks are followed on
PipelineItems ==
    {n \in NewsItems : n.urgency_tags = {} /\ ~n.is_priority /\ ~n.is_narrative}

Handlers == {"on_news", "handle_message"}

\* variant: an exception of tagger.tag leaves the callback
TaggerErrorCaughtOff == FALSE

\* `try: tagged = tagger.tag(news)` / `except Exception as e:` of on_news, the
\* same in handle_message
TaggerErrorCaught == TRUE

\* `try: await news_publisher.publish(tagged_news)` / `except Exception as e:`
RedisErrorCaught == TRUE

\* the callback is called: the record of the call, given what went wrong
CallRecord(out, fault) ==
    [handler |-> news_cb.handler, out |-> out, fault |-> fault, prev |-> news_cb.fault]

\* the TaggedNewsItem as channels_for_item reads it (no coins followed here)
RoutedItem(t) == [urgency |-> t.urgency, categories |-> t.categories, tickers |-> <<>>]

pipelineRest == <<pubCaller, should_reconnect, connected, ws, receive_task, attempt_count,
                  current_delay, reset_from, messages_received, wired, socks, loops, cyc,
                  cycDelay, disc, backoffVars, routerVars, marketVars, groqVars,
                  serializerVars, toggleVars, streamVars>>

\* on_news(news) of server/main.py up to `await bus.publish(tags, story)`:
\* the count, the tagging, the broadcast task, and the publish unless the
\* item has no category or was not tagged
OnNewsItem(n, f) ==
    /\ news_cb.handler = "on_news"
    /\ news_cb.out # "publishing"
    /\ message_count < MaxFrames
    /\ message_count' = message_count + 1
    /\ TagCall(n, f)
    /\ LET t == TagOutcome(n, f)
           tags == IF t.kind = "tagged" THEN t.categories ELSE <<>>
       IN IF t.kind # "tagged" /\ ~TaggerErrorCaught
          THEN /\ news_cb' = CallRecord("raised", "tagging")
               /\ UNCHANGED busVars
          ELSE IF tags = <<>>
          THEN /\ news_cb' = CallRecord("returned", IF t.kind = "tagged"
                                                    THEN "no_categories" ELSE "tagging")
               /\ UNCHANGED busVars
          ELSE /\ Publish(tags, n.id)
               /\ news_cb' = CallRecord(IF PublishTasks(subs, tags) = <<>>
                                        THEN "returned" ELSE "publishing", "none")
    /\ UNCHANGED <<feedVars, pipelineRest>>

\* `await bus.publish(tags, story)` returns and on_news with it
OnNewsDone ==
    /\ news_cb.handler = "on_news"
    /\ news_cb.out = "publishing"
    /\ PublishReturn
    /\ news_cb' = [news_cb EXCEPT
                       !.out = IF GatherRaises(tasks) THEN "raised" ELSE "returned",
                       !.fault = IF \E i \in 1..Len(tasks) : tasks[i].st = "failed"
                                 THEN "subscriber" ELSE "none"]
    /\ UNCHANGED <<message_count, taggerVars, feedVars, pipelineRest>>

\* handle_message(news) of news_streamer/main.py: the count, the log line
\* (`', '.join(news.pre_tagged_tickers)` raises TypeError when a coin of the
\* message is no string: strs tells whether all are strings), the
\* tagging, the broadcast, and NewsPublisher.publish for a tagged item, which
\* returns (r = "ok") or raises
HandleMessageItem(n, strs, f, r) ==
    /\ news_cb.handler = "handle_message"
    /\ message_count < MaxFrames
    /\ message_count' = message_count + 1
    /\ IF ~strs
       THEN /\ news_cb' = CallRecord("raised", "log")
            /\ UNCHANGED <<taggerVars, feedVars>>
       ELSE /\ TagCall(n, f)
            /\ LET t == TagOutcome(n, f)
               IN IF t.kind # "tagged"
                  THEN /\ news_cb' = CallRecord(IF TaggerErrorCaught THEN "returned"
                                                ELSE "raised", "tagging")
                       /\ UNCHANGED feedVars
                  ELSE IF r = "ok"
                  THEN /\ news_cb' = CallRecord("returned", "none")
                       /\ published' = published + 1
                       /\ queue' = queue \o Deliveries(channels_for_item(RoutedItem(t)),
                                                       Feeds(MarketTags), published + 1)
                       /\ pulls' = 0
                       /\ evals' = 0
                       /\ UNCHANGED <<listener_seen, lpc, last_outcome>>
                  ELSE /\ news_cb' = CallRecord(IF RedisErrorCaught THEN "returned"
                                                ELSE "raised", "redis")
                       /\ UNCHANGED feedVars
    /\ UNCHANGED <<busVars, pipelineRest>>

\* C32: a call of the message callback in which the tagging fails, the item
\* has no category, a subscriber fails or the publish to the broker fails
\* returns without raising; and whatever went wrong for the item before, an
\* item given to the callback is tagged, and a tagged item is published: by
\* on_news on the bus under its categories to the callbacks registered on
\* them (when it has a category), by handle_message to the broker.
C32_FailureIsolated ==
    /\ [](news_cb.fault \in {"tagging", "no_categories", "subscriber", "redis", "none"}
              => news_cb.out # "raised")
    /\ [][(message_count' = message_count + 1 /\ news_cb'.fault # "log") =>
              /\ tag_calls' = tag_calls + 1
              /\ items_tagged' + items_failed' = items_tagged + items_failed + 1
              /\ (news_cb.handler = "on_news" /\ tagged'.kind = "tagged"
                      /\ tagged'.categories # <<>>) =>
                     /\ pubChans' = tagged'.categories
                     /\ pubPayload' = news'.id
                     /\ TaskCbs(tasks') = PublishTasks(subs, tagged'.categories)
              /\ (news_cb.handler = "handle_message" /\ tagged'.kind = "tagged"
                      /\ news_cb'.fault # "redis") =>
                     /\ published' = published + 1
                     /\ Len(queue') > Len(queue)]_vars

\* on_news has returned for a second item, published to both markets, after a
\* first item whose tagging failed
C32_Witness ==
    /\ news_cb = [handler |-> "on_news", out |-> "returned", fault |-> "none",
                  prev |-> "tagging"]
    /\ message_count = 2
    /\ items_failed = 1
    /\ items_tagged = 1
    /\ pubPc = "returned"
    /\ pubResult = 2

\* ------------------------------------------------- pub_sub_feed serializer
\* what a Redis message can be: a str, bytes that are UTF-8 or bytes that are
\* not ("enc"), whose text is no JSON ("invalid"), or the JSON null, a
\* number, a string, an array, or an object with some of the keys `channel`,
\* `data` and another one
JsonObjects ==
    {[kind |-> "object", keys |-> k,
      channel |-> IF "channel" \in k THEN c ELSE "none",
      data |-> IF "data" \in k THEN d ELSE "none"] :
         k \in SUBSET {"channel", "data", "other"}, c \in {ALL, "news:category:crypto"},
         d \in Payloads}

JsonTexts ==
    {[kind |-> j, keys |-> {}, channel |-> "none", data |-> "none"] :
         j \in {"invalid", "null", "number", "string", "array"}}
    \cup JsonObjects

RawMessages == {[enc |-> e, text |-> t] : e \in {"str", "utf8", "bytes"}, t \in JsonTexts}

NoRaw == [enc |-> "none", text |-> [kind |-> "none", keys |-> {}, channel |-> "none",
                                     data |-> "none"]]

NoDeserialized == [kind |-> "none", channel |-> "none", data |-> "none"]

Raised(exc) == [kind |-> exc, channel |-> "none", data |-> "none"]

\* the f-string of the malformed-envelope error, `list(envelope.keys())`:
\* only a dict has keys()
MalformedMessage(envelope) ==
    IF envelope.kind = "object" THEN "SerializationError" ELSE "AttributeError"

\* `isinstance(envelope, dict) and "channel" in envelope and "data" in envelope`
IsEnvelope(envelope) ==
    /\ envelope.kind = "object"
    /\ "channel" \in envelope.keys
    /\ "data" \in envelope.keys

\* deserialize(raw): `raw.decode("utf-8")` for bytes, outside the try;
\* json.loads inside it; the envelope test; the pair returned
deserialize(r) ==
    IF r.enc = "bytes" THEN Raised("UnicodeDecodeError")
    ELSE IF r.text.kind = "invalid" THEN Raised("SerializationError")
    ELSE IF ~IsEnvelope(r.text) THEN Raised(MalformedMessage(r.text))
    ELSE [kind |-> "returned", channel |-> r.text.channel, data |-> r.text.data]

serializerRest == <<busVars, pubCaller, should_reconnect, connected, ws, receive_task,
                    attempt_count, current_delay, reset_from, messages_received,
                    message_count, wired, socks, loops, cyc, cycDelay, disc, backoffVars,
                    routerVars, feedVars, marketVars, groqVars, taggerVars, news_cb,
                    toggleVars, streamVars>>

\* one call deserialize(r)
Deserialize(r) ==
    /\ deserialize_calls < MaxDeserialize
    /\ deserialize_calls' = deserialize_calls + 1
    /\ raw' = r
    /\ deserialized' = deserialize(r)
    /\ UNCHANGED serializerRest

\* C35: deserialize returns (channel, data) for a JSON object that has both
\* keys, and for every other input (text that is no JSON, an object without
\* `channel` or without `data`, an array, null) it raises
\* SerializationError and nothing else.
C35_DeserializeErrors ==
    deserialize_calls > 0 =>
        IF raw.enc # "bytes" /\ raw.text.kind = "object"
              /\ {"channel", "data"} \subseteq raw.text.keys
        THEN deserialized = [kind |-> "returned", channel |-> raw.text.channel,
                             data |-> raw.text.data]
        ELSE deserialized = Raised("SerializationError")

\* ----------------------------------------------------- market enable/disable
\* market_by_addr: two markets, one with two tags, one that names a tag twice
Markets == {"M1", "M2"}

\* the `address` of a command: a market's, or one that is not in market_by_addr
Addresses == Markets \cup {"unknown"}

\* market.tags
TagsOf(m) == IF m = "M1" THEN <<"politics", "crypto">> ELSE <<"crypto", "crypto">>

\* _make_market_callback(market): the closure made when the market is
\* enabled; the one made at the enable before is off the bus by then
MarketCallback(m) == IF m = "M1" THEN "S1" ELSE "S2"

\* `for tag in market.tags: bus.subscribe(tag, cb)`
RECURSIVE SubscribeTags(_, _, _)
SubscribeTags(d, tags, cb) ==
    IF tags = <<>> THEN d
    ELSE SubscribeTags(DictSet(d, Head(tags), Append(SubsGet(d, Head(tags)), cb)),
                       Tail(tags), cb)

\* variant: each distinct tag is unsubscribed once
RECURSIVE UnsubscribeTagsDistinct(_, _, _)
UnsubscribeTagsDistinct(d, tags, cb) ==
    IF tags = <<>> THEN d
    ELSE UnsubscribeTagsDistinct(UnsubscribeResult(d, Head(tags), cb),
                                 SelectSeq(Tail(tags), LAMBDA t : t # Head(tags)), cb)

\* `for tag in market.tags: bus.unsubscribe(tag, cb)`
RECURSIVE UnsubscribeTags(_, _, _)
UnsubscribeTags(d, tags, cb) ==
    IF tags = <<>> THEN d
    ELSE UnsubscribeTags(UnsubscribeResult(d, Head(tags), cb), Tail(tags), cb)

toggleRest == <<pubCaller, should_reconnect, connected, ws, receive_task, attempt_count,
                current_delay, reset_from, messages_received, message_count, wired, socks,
                loops, cyc, cycDelay, disc, backoffVars, routerVars, feedVars, marketVars,
                groqVars, taggerVars, news_cb, serializerVars, streamVars>>

\* _handle_command({"address": address, "enabled": want_enabled}), with
\* _subscribe_market and _unsubscribe_market
HandleCommand(address, want_enabled) ==
    /\ commands < MaxCommands
    /\ commands' = commands + 1
    /\ command' = [address |-> address, enabled |-> want_enabled]
    /\ IF address \notin Markets
       THEN UNCHANGED <<enabled_markets, market_callbacks, subs, regs>>
       ELSE IF want_enabled /\ address \notin enabled_markets
       THEN LET cb == MarketCallback(address)
            IN /\ enabled_markets' = enabled_markets \cup {address}
               /\ market_callbacks' = DictSet(market_callbacks, address, cb)
               /\ subs' = SubscribeTags(subs, TagsOf(address), cb)
               /\ regs' = [x \in DOMAIN regs |->
                               IF x[2] = cb THEN regs[x] + Count(TagsOf(address), x[1])
                               ELSE regs[x]]
       ELSE IF ~want_enabled /\ address \in enabled_markets
       THEN /\ enabled_markets' = enabled_markets \ {address}
            /\ market_callbacks' = DictDel(market_callbacks, address)
            /\ IF address \in DOMAIN market_callbacks
               THEN LET cb == market_callbacks[address]
                    IN /\ subs' = UnsubscribeTags(subs, TagsOf(address), cb)
                       /\ regs' = [x \in DOMAIN regs |->
                                       IF x[2] = cb
                                       THEN Max(regs[x] - Count(TagsOf(address), x[1]), 0)
                                       ELSE regs[x]]
               ELSE UNCHANGED <<subs, regs>>
       ELSE UNCHANGED <<enabled_markets, market_callbacks, subs, regs>>
    /\ removed' = (~want_enabled /\ address \in enabled_markets)
    /\ UNCHANGED <<tasks, pubPc, pubResult, pubChans, pubPayload, pubExpected, toggleRest>>

\* the channels that carry a tag of an enabled market
EnabledChannels == UNION {Range(TagsOf(m)) : m \in enabled_markets}

RECURSIVE SumTags(_)
SumTags(S) ==
    IF S = {} THEN 0
    ELSE LET m == CHOOSE x \in S : TRUE IN Len(TagsOf(m)) + SumTags(S \ {m})

\* C36: no market is enabled or registered at the start; after any commands
\* the callback of a market is on a channel once per occurrence of the
\* channel among the market's tags when the market is enabled and not at all
\* when it is not, and market_callbacks holds the enabled markets; a command
\* that enables an enabled market, disables a disabled one or names an
\* unknown address changes neither the enabled set nor the bus;
\* subscriber_count and channel_count are those of the enabled set alone, so
\* enable followed by disable restores them.
C36_BusFollowsEnabled ==
    /\ [](commands = 0 => enabled_markets = {} /\ subscriber_count = 0)
    /\ [](\A m \in Markets, ch \in Channels :
              Count(SubsGet(subs, ch), MarketCallback(m))
                  = IF m \in enabled_markets THEN Count(TagsOf(m), ch) ELSE 0)
    /\ [](DOMAIN market_callbacks = enabled_markets)
    /\ [][\A a \in Addresses, e \in BOOLEAN :
              (/\ HandleCommand(a, e)
               /\ \/ a \notin Markets
                  \/ (e /\ a \in enabled_markets)
                  \/ (~e /\ a \notin enabled_markets))
                  => UNCHANGED <<enabled_markets, market_callbacks, subs>>]_vars
    /\ [](subscriber_count = SumTags(enabled_markets))
    /\ [](channel_count = Cardinality(EnabledChannels))

\* three commands: M1 and M2, which names `crypto` twice, were enabled, then M2
\* was disabled; the bus is as it was with M1 alone
C36_Witness ==
    /\ commands = 3
    /\ command = [address |-> "M2", enabled |-> FALSE]
    /\ removed
    /\ enabled_markets = {"M1"}
    /\ subs = [ch \in {"politics", "crypto"} |-> <<"S1">>]
    /\ subscriber_count = 2
    /\ channel_count = 2

\* ----------------------------------------------------------- InMemoryStream
\* the tag channels of the stub
StreamTags == {"fed", "macro"}

\* the argument `tags` of publish_to_tags and of subscribe: none, one, both,
\* one named twice
StreamTagLists == {<<>>, <<"fed">>, <<"macro">>, <<"fed", "macro">>, <<"fed", "fed">>}

\* the argument `payload` of publish_to_tags, which the stub only passes on
StreamPayloads == {"p1"}

\* the subscribe() calls; each has one queue, named like the call
Consumers == {"c1", "c2"}

NoEntry == [id |-> 0, payload |-> "p1"]

\* a subscribe() call that was not made yet
NotSubscribed == [pc |-> "none", tags |-> <<>>, entry |-> NoEntry, handled |-> <<>>]

\* everything but the stream
streamRest == <<busVars, pubCaller, should_reconnect, connected, ws, receive_task,
                attempt_count, current_delay, reset_from, messages_received,
                message_count, wired, socks, loops, cyc, cycDelay, disc, backoffVars,
                routerVars, feedVars, marketVars, groqVars, taggerVars, news_cb,
                serializerVars, toggleVars>>

\* variant: no test against delivered_to
InDeliveredToNever(q, delivered_to) == FALSE

\* `q_id not in delivered_to`, negated
InDeliveredTo(q, delivered_to) == q \in delivered_to

\* `for q in self._subscribers.get(tag, [])`: put the entry on every queue of
\* the list that did not get it in this call
RECURSIVE PutOnQueues(_, _, _, _)
PutOnQueues(qs, entry, queues, delivered_to) ==
    IF qs = <<>> THEN [queues |-> queues, delivered_to |-> delivered_to]
    ELSE IF InDeliveredTo(Head(qs), delivered_to)
         THEN PutOnQueues(Tail(qs), entry, queues, delivered_to)
         ELSE PutOnQueues(Tail(qs), entry,
                          [queues EXCEPT ![Head(qs)] = Append(@, entry)],
                          delivered_to \cup {Head(qs)})

\* `for tag in tags`: record the entry under the tag, then serve the tag's queues
RECURSIVE PublishLoop(_, _, _, _, _)
PublishLoop(tags, entry, messages, queues, delivered_to) ==
    IF tags = <<>> THEN [messages |-> messages, queues |-> queues]
    ELSE LET put == PutOnQueues(stream_subscribers[Head(tags)], entry, queues, delivered_to)
         IN PublishLoop(Tail(tags), entry,
                        [messages EXCEPT ![Head(tags)] = Append(@, entry)],
                        put.queues, put.delivered_to)

\* publish_to_tags(tags, p): the queues are unbounded, so no put waits and the
\* call is one step; the uuid4 message id is the number of the call
PublishToTags(tags, p) ==
    /\ stream_ids < MaxStreamMsgs
    /\ LET entry == [id |-> stream_ids + 1, payload |-> p]
           done == PublishLoop(tags, entry, stream_messages, stream_queues, {})
       IN /\ stream_messages' = done.messages
          /\ stream_queues' = done.queues
    /\ stream_ids' = stream_ids + 1
    /\ UNCHANGED <<stream_subscribers, consumers, streamRest>>

\* `for tag in tags: self._subscribers[tag].append(q)`
RECURSIVE RegisterQueue(_, _, _)
RegisterQueue(tags, q, subscribers) ==
    IF tags = <<>> THEN subscribers
    ELSE RegisterQueue(Tail(tags), q, [subscribers EXCEPT ![Head(tags)] = Append(@, q)])

\* the `finally` of subscribe: `self._subscribers[tag].remove(q)` per tag,
\* a ValueError passed over
RECURSIVE RemoveQueue(_, _, _)
RemoveQueue(tags, q, subscribers) ==
    IF tags = <<>> THEN subscribers
    ELSE RemoveQueue(Tail(tags), q,
                     IF q \in Range(subscribers[Head(tags)])
                     THEN [subscribers EXCEPT ![Head(tags)] = RemoveFirst(@, q)]
                     ELSE subscribers)

\* subscribe(tags, group, consumer, callback) up to its first `await q.get()`
StreamSubscribe(c, tags) ==
    /\ consumers[c].pc = "none"
    /\ stream_subscribers' = RegisterQueue(tags, c, stream_subscribers)
    /\ stream_queues' = [stream_queues EXCEPT ![c] = <<>>]
    /\ consumers' = [consumers EXCEPT ![c] = [NotSubscribed EXCEPT !.pc = "get", !.tags = tags]]
    /\ UNCHANGED <<stream_messages, stream_ids, streamRest>>

\* `message_id, payload = await q.get()` returns and the callback is called
QueueGet(c) ==
    /\ consumers[c].pc = "get"
    /\ stream_queues[c] # <<>>
    /\ consumers' = [consumers EXCEPT ![c].pc = "callback", ![c].entry = Head(stream_queues[c])]
    /\ stream_queues' = [stream_queues EXCEPT ![c] = Tail(@)]
    /\ UNCHANGED <<stream_subscribers, stream_messages, stream_ids, streamRest>>

\* `await callback(message_id, payload)` returns or raises an Exception, which
\* `except Exception` logs; either way the loop goes back to q.get()
CallbackDone(c, o) ==
    /\ consumers[c].pc = "callback"
    /\ consumers' = [consumers EXCEPT
                        ![c].pc = "get",
                        ![c].handled = Append(@, [id |-> consumers[c].entry.id, out |-> o])]
    /\ UNCHANGED <<stream_subscribers, stream_messages, stream_queues, stream_ids, streamRest>>

\* the subscribe() task is cancelled at one of its awaits: the `finally` takes
\* the queue out of the tag lists, and the queue and the other locals are
\* dropped with the call
CancelSubscriber(c) ==
    /\ consumers[c].pc \in {"get", "callback"}
    /\ stream_subscribers' = RemoveQueue(consumers[c].tags, c, stream_subscribers)
    /\ stream_queues' = [stream_queues EXCEPT ![c] = <<>>]
    /\ consumers' = [consumers EXCEPT ![c] = [NotSubscribed EXCEPT !.pc = "cancelled"]]
    /\ UNCHANGED <<stream_messages, stream_ids, streamRest>>

\* the subscribe() call of c is running
Subscribed(c) == consumers[c].pc \in {"get", "callback"}

\* the message ids c has got: handled, in its callback, waiting on its queue
IdsGot(c) ==
    [i \in 1..Len(consumers[c].handled) |-> consumers[c].handled[i].id]
        \o (IF consumers[c].pc = "callback" THEN <<consumers[c].entry.id>> ELSE <<>>)
        \o [i \in 1..Len(stream_queues[c]) |-> stream_queues[c][i].id]

\* C39: publish_to_tags(tags, payload) appends the message once to the queue
\* of every running subscriber that subscribed to one of tags, however many of
\* its tags match and however often a tag is named, and leaves every other
\* queue as it was; no subscriber ever gets a message id twice; and a callback
\* that raises puts its subscriber back at q.get() with its registration and
\* its queue untouched.
C39_OncePerSubscriber ==
    /\ [][\A tags \in StreamTagLists, p \in StreamPayloads :
              PublishToTags(tags, p) =>
                  \A c \in Consumers :
                      stream_queues'[c] =
                          IF Subscribed(c) /\ Range(consumers[c].tags) \cap Range(tags) # {}
                          THEN Append(stream_queues[c], [id |-> stream_ids', payload |-> p])
                          ELSE stream_queues[c]]_vars
    /\ [](\A c \in Consumers : \A m \in 1..MaxStreamMsgs : Count(IdsGot(c), m) <= 1)
    /\ [](\A c \in Consumers : \A t \in StreamTags :
              Count(stream_subscribers[t], c) =
                  (IF Subscribed(c) THEN Count(consumers[c].tags, t) ELSE 0))
    /\ [][\A c \in Consumers :
              (/\ consumers[c].pc = "callback"
               /\ Len(consumers'[c].handled) = Len(consumers[c].handled) + 1
               /\ consumers'[c].handled[Len(consumers'[c].handled)].out = "raised")
                  => /\ consumers'[c].pc = "get"
                     /\ stream_subscribers' = stream_subscribers
                     /\ stream_queues' = stream_queues]_vars

\* c1 listens on both tags and c2 on one of them; two messages went to both
\* tags; c1's callback raised for the first and returned for the second, and
\* c2 has both waiting
C39_Witness ==
    /\ consumers["c1"].tags = <<"fed", "macro">>
    /\ consumers["c1"].pc = "get"
    /\ consumers["c1"].handled = <<[id |-> 1, out |-> "raised"], [id |-> 2, out |-> "returned"]>>
    /\ stream_queues["c1"] = <<>>
    /\ consumers["c2"].tags = <<"fed">>
    /\ consumers["c2"].pc = "get"
    /\ IdsGot("c2") = <<1, 2>>
    /\ stream_ids = 2
    /\ Len(stream_messages["fed"]) = 2
    /\ Len(stream_messages["macro"]) = 2

\* ------------------------------------------------------------ specification
InitBus ==
    /\ subs = <<>>
    /\ tasks = <<>>
    /\ pubPc = "idle"
    /\ pubResult = -1
    /\ pubChans = <<>>
    /\ pubPayload = "p1"
    /\ pubExpected = {}
    /\ removed = FALSE
    /\ regs = [x \in Channels \X Callbacks |-> 0]

\* DBNewsWebSocketClient.__init__ but for `ReconnectionState()` (and, when
\* wired, the three on_* registrations)
InitClientFields ==
    /\ pubCaller = 0
    /\ should_reconnect = TRUE
    /\ connected = FALSE
    /\ ws = 0
    /\ receive_task = 0
    /\ reset_from = -1
    /\ messages_received = 0
    /\ message_count = 0
    /\ wired \in BOOLEAN
    /\ socks = [s \in SockIds |-> "free"]
    /\ loops = [l \in LoopIds |-> NoLoop]
    /\ cyc = [k \in CycleIds |-> "idle"]
    /\ cycDelay = [k \in CycleIds |-> 0]
    /\ disc = NoDisc

\* DBNewsWebSocketClient.__init__: `self._reconnection_state = ReconnectionState()`
InitClient == InitClientFields /\ InitReconnectionState(InitialDelay)

\* no call of channels_for_item yet
InitRouter ==
    /\ item = NoItem
    /\ result = <<>>

\* AgentListener.run before the first pull, the broker holding nothing
InitFeed ==
    /\ published = 0
    /\ queue = <<>>
    /\ listener_seen = {}
    /\ lpc = "pull"
    /\ pulls = 0
    /\ evals = 0
    /\ last_outcome = "none"

\* no market callback has run
InitMarket ==
    /\ decisions = 0
    /\ last_scoring = [cb \in Callbacks |-> "none"]
    /\ recovered = {}

\* no classify() call yet
InitGroq ==
    /\ groq_pc = "idle"
    /\ attempt = 0
    /\ last_error = "none"
    /\ responses = <<>>
    /\ classify_calls = 0

\* NewsTagger.__init__: `self._stats = TaggerStats()`
InitTagger ==
    /\ items_tagged = 0
    /\ items_failed = 0
    /\ tag_calls = 0
    /\ news = NoNews
    /\ tagged = NoTagged

\* the message callback h of a process, not called yet
InitNewsCb(h) ==
    news_cb = [handler |-> h, out |-> "none", fault |-> "none", prev |-> "none"]

\* the units outside the bus and the client before their first call
\* no deserialize() call yet
InitSerializer ==
    /\ raw = NoRaw
    /\ deserialized = NoDeserialized
    /\ deserialize_calls = 0

\* run(): `enabled_markets: set[str] = set()`, `market_callbacks = {}`
\* InMemoryStream.__init__: no subscriber, no message
InitStream ==
    /\ stream_subscribers = [t \in StreamTags |-> <<>>]
    /\ stream_messages = [t \in StreamTags |-> <<>>]
    /\ stream_queues = [c \in Consumers |-> <<>>]
    /\ consumers = [c \in Consumers |-> NotSubscribed]
    /\ stream_ids = 0

InitToggle ==
    /\ enabled_markets = {}
    /\ market_callbacks = <<>>
    /\ command = [address |-> "none", enabled |-> FALSE]
    /\ commands = 0

\* the units added to the first ones, before their first call
InitMore ==
    InitTagger /\ InitNewsCb("on_news") /\ InitSerializer /\ InitToggle /\ InitStream

InitUnits == InitRouter /\ InitFeed /\ InitMarket /\ InitGroq /\ InitMore

\* a bus with no subscriber yet, next to a client that is not wired to it
Init == InitBus /\ InitClient /\ InitUnits /\ ~wired

\* the bus on its own
Next ==
    \/ \E ch \in Channels, cb \in Callbacks : Subscribe(ch, cb) /\ UNCHANGED clientVars
    \/ \E ch \in Channels, cb \in Callbacks : Unsubscribe(ch, cb) /\ UNCHANGED clientVars
    \/ \E chs \in ChannelLists, p \in Payloads : Publish(chs, p) /\ UNCHANGED clientVars
    \/ \E i \in DOMAIN tasks : StartTask(i) /\ UNCHANGED clientVars
    \/ \E i \in DOMAIN tasks, o \in {"done", "failed"} : FinishTask(i, o) /\ UNCHANGED clientVars
    \/ PublishReturn /\ UNCHANGED clientVars

Spec == Init /\ [][Next]_vars

\* two markets enabled by _subscribe_market: S1 on politics and crypto, S2 on crypto
WiredSubs == [ch \in Channels |-> IF ch = "politics" THEN <<"S1">> ELSE <<"S1", "S2">>]

\* the client of a process whose callbacks are wired to a bus with two enabled
\* markets, or a bare client next to an empty bus
InitPipeline ==
    /\ InitClient
    /\ InitUnits
    /\ tasks = <<>>
    /\ pubPc = "idle"
    /\ pubResult = -1
    /\ pubChans = <<>>
    /\ pubPayload = "p1"
    /\ pubExpected = {}
    /\ removed = FALSE
    /\ subs = IF wired THEN WiredSubs ELSE <<>>
    /\ regs = [x \in Channels \X Callbacks |->
                  IF wired THEN Count(WiredSubs[x[1]], x[2]) ELSE 0]

\* the ingestion client feeding the bus through on_news
NextClient ==
    \/ Connect
    \/ \E k \in CycleIds : CycleStart(k)
    \/ \E k \in CycleIds : ConnectOk(k)
    \/ \E k \in CycleIds : ReconnectCbDone(k)
    \/ \E k \in CycleIds : ConnectFail(k)
    \/ \E k \in CycleIds : ConnectAuth(k)
    \/ \E k \in CycleIds : ErrorCbDone(k)
    \/ \E k \in CycleIds : SleepDone(k)
    \/ \E l \in LoopIds : RecvStart(l)
    \/ \E l \in LoopIds, f \in Frames : RecvFrame(l, f)
    \/ \E l \in LoopIds : OnNewsReturn(l)
    \/ \E s \in SockIds : NetClose(s)
    \/ \E l \in LoopIds : RecvClosed(l)
    \/ \E i \in DOMAIN tasks : StartTask(i) /\ UNCHANGED clientVars
    \/ \E i \in DOMAIN tasks, o \in {"done", "failed"} : FinishTask(i, o) /\ UNCHANGED clientVars
    \/ \E i \in DOMAIN tasks : TaskCancelled(i)
    \/ DisconnectCall
    \/ \E l \in LoopIds : LoopCancelled(l)
    \/ DisconnectAwaited
    \/ DisconnectClosed

SpecClient == InitPipeline /\ [][NextClient]_vars

\* the event loop runs every ready task, callbacks and sleeps return, the
\* network answers every attempt, and attempts made again and again succeed
FairClient ==
    /\ \A k \in CycleIds :
           /\ WF_vars(CycleStart(k))
           /\ WF_vars(ReconnectCbDone(k))
           /\ WF_vars(ErrorCbDone(k))
           /\ WF_vars(SleepDone(k))
           /\ WF_vars(ConnectOk(k) \/ ConnectFail(k) \/ ConnectAuth(k))
           /\ SF_vars(ConnectOk(k))

FairSpecClient == SpecClient /\ FairClient

\* a ReconnectionState constructed with any of the initial delays, next to an
\* idle bus and an idle client
InitBackoff ==
    /\ InitBus
    /\ InitClientFields
    /\ InitUnits
    /\ ~wired
    /\ \E d \in InitialDelays : InitReconnectionState(d)

NextBackoff ==
    \/ NextDelay
    \/ Reset

SpecBackoff == InitBackoff /\ [][NextBackoff]_vars

\* the channel router called on tagged items
NextRouter == \E it \in TaggedItems : ChannelsForItem(it)

SpecRouter == Init /\ [][NextRouter]_vars

\* NewsPublisher, the broker and one AgentListener
NextFeed ==
    \/ \E it \in TaggedItems : NewsPublish(MaxStories, it)
    \/ PullStory
    \/ \E o \in CallbackOutcomes : ListenerOnStory(o)

SpecFeed == Init /\ [][NextFeed]_vars

\* the bus with two enabled markets and no client connected
InitMarkets == InitPipeline /\ wired

\* stories scored by the market callbacks on the bus and by an AgentListener
NextMarkets ==
    \/ \E chs \in TagLists, p \in Payloads : OnNews(chs, p)
    \/ \E i \in DOMAIN tasks : StartTask(i) /\ UNCHANGED clientVars
    \/ \E i \in DOMAIN tasks, o \in CallbackOutcomes : OnStoryReturn(i, o)
    \/ PublishReturn /\ UNCHANGED clientVars
    \/ \E it \in TaggedItems : NewsPublish(MaxEvals, it)
    \/ PullStory
    \/ \E o \in CallbackOutcomes : ListenerOnStory(o)

SpecMarkets == InitMarkets /\ [][NextMarkets]_vars

\* classify() calls against a backend that answers in any of the ways
NextGroq ==
    \/ Classify
    \/ \E r \in ResponseKinds : Respond(r)

SpecGroq == Init /\ [][NextGroq]_vars

\* tag() called on news items, any sub-step going wrong
NextTagger == \E n \in NewsItems, f \in TagFaults : Tag(n, f)

SpecTagger == Init /\ [][NextTagger]_vars

\* the process of server/main.py, with two enabled markets on its bus, or the
\* process of news_streamer/main.py
InitCallbacks ==
    /\ InitClient
    /\ InitRouter /\ InitFeed /\ InitMarket /\ InitGroq /\ InitTagger /\ InitSerializer
    /\ InitToggle /\ InitStream
    /\ \E h \in Handlers : InitNewsCb(h)
    /\ wired
    /\ tasks = <<>>
    /\ pubPc = "idle"
    /\ pubResult = -1
    /\ pubChans = <<>>
    /\ pubPayload = "p1"
    /\ pubExpected = {}
    /\ removed = FALSE
    /\ subs = WiredSubs
    /\ regs = [x \in Channels \X Callbacks |-> Count(WiredSubs[x[1]], x[2])]

\* items handed to the message callback, the subscribers running
NextCallbacks ==
    \/ \E n \in PipelineItems, f \in TagFaults : OnNewsItem(n, f)
    \/ \E i \in DOMAIN tasks : news_cb.out = "publishing" /\ StartTask(i) /\ UNCHANGED clientVars
    \/ \E i \in DOMAIN tasks, o \in {"done", "failed"} :
           news_cb.out = "publishing" /\ FinishTask(i, o) /\ UNCHANGED clientVars
    \/ OnNewsDone
    \/ \E n \in PipelineItems, strs \in BOOLEAN, f \in TagFaults, r \in {"ok", "fails"} :
           HandleMessageItem(n, strs, f, r)

SpecCallbacks == InitCallbacks /\ [][NextCallbacks]_vars

\* deserialize() called on Redis messages
NextSerializer == \E r \in RawMessages : Deserialize(r)

SpecSerializer == Init /\ [][NextSerializer]_vars

\* toggle_market commands while stories are published on the bus
NextToggle ==
    \/ \E a \in Addresses, e \in BOOLEAN : HandleCommand(a, e)
    \/ \E chs \in TagLists, p \in Payloads : OnNews(chs, p)
    \/ \E i \in DOMAIN tasks : StartTask(i) /\ UNCHANGED clientVars
    \/ \E i \in DOMAIN tasks, o \in CallbackOutcomes : OnStoryReturn(i, o)
    \/ PublishReturn /\ UNCHANGED clientVars

SpecToggle == Init /\ [][NextToggle]_vars

\* subscribe() tasks and publish_to_tags() calls on one InMemoryStream
NextStream ==
    \/ \E c \in Consumers, tags \in StreamTagLists : StreamSubscribe(c, tags)
    \/ \E tags \in StreamTagLists, p \in StreamPayloads : PublishToTags(tags, p)
    \/ \E c \in Consumers : QueueGet(c)
    \/ \E c \in Consumers, o \in {"returned", "raised"} : CallbackDone(c, o)
    \/ \E c \in Consumers : CancelSubscriber(c)

SpecStream == Init /\ [][NextStream]_vars

====
